---- MODULE Spec2Model ----
(***************************************************************************)
(* A model of the PDF modification pipeline of fss-parse-pdf-ts:           *)
(*   - PDFModifier.modifyPdf / modifyWithPdfLib (src/src/safety-manager.ts)*)
(*   - the batch-modify command and its helpers (src/src/cli.ts)           *)
(*   - PdfParser and SafetyManager.validateFile (src/src/pdf-parser.ts)    *)
(*   - the engine cache of PdfGenerator (src/unnamed/part_000)             *)
(* The pdf-lib document library and the file system are the environment:   *)
(* their answers (a file reads or not, a document parses or not, an image  *)
(* decodes or not, a save succeeds or not) are drawn from small sets.      *)
(***************************************************************************)
EXTENDS Integers, Sequences, FiniteSets, TLC

(***************************************************************************)
(* Bounds of the model.                                                    *)
(***************************************************************************)
\* the largest total number of edits of one modifyPdf request
MaxEdits == 3
\* the largest page count of a source document
MaxPages == 2
\* the largest number of files the batch discovers
MaxFiles == 3
\* the longest range string parsePageRange is given, in characters
MaxRangeLen == 4
\* the largest totalPages parsePageRange is given
MaxCalls == 2          \* calls that overlap on one PdfGenerator
MaxTotalPages == 3

(***************************************************************************)
(* JavaScript values.                                                      *)
(***************************************************************************)
\* an absent optional string (imagePath?, text?, errorMessage?)
Undef == "<undefined>"

\* an optional number: a number, undefined, or NaN (parseInt of a non-number)
Num(n)    == [t |-> "number", v |-> n]
UNDEFINED == [t |-> "undefined", v |-> 0]
NAN       == [t |-> "NaN", v |-> 0]

\* JavaScript's  x || 0  on an optional number: undefined, NaN and 0 are falsy
OrZero(p) == IF p.t = "number" /\ p.v # 0 THEN p.v ELSE 0

\* JavaScript's truthiness of an optional string
Truthy(s) == s # Undef /\ s # ""

RECURSIVE SumSeq(_)
SumSeq(s) == IF s = <<>> THEN 0 ELSE Head(s) + SumSeq(Tail(s))

\* all sequences over S of length at most n
SeqsUpTo(S, n) == UNION {[1..k -> S] : k \in 0..n}

(***************************************************************************)
(* The environment: image files on disk, form fields of a document, text   *)
(* the standard font can encode.                                           *)
(***************************************************************************)
\* extension of a path as  path.toLowerCase().endsWith(...)  sees it
PathExt(p) ==
  CASE p \in {"sig.png", "absent.png", "broken.png", "logo.png"} -> "png"
    [] p \in {"sig.jpg"} -> "jpg"
    [] OTHER -> "other"

\* fs.readFileSync(path) returns the bytes (TRUE) or throws (FALSE)
Readable(p) == p \in {"sig.png", "sig.jpg", "sig.gif", "broken.png", "logo.png", "logo.bmp"}

\* pdfDoc.embedPng / embedJpg accepts the bytes (TRUE) or throws (FALSE)
Decodes(p) == p \in {"sig.png", "sig.jpg", "logo.png"}

\* page.drawText throws on text the standard font cannot encode
Encodable(text) == text # "NON_ANSI"

\* the AcroForm fields of every source document:  name -> constructor.name
FormFields ==
  ("name" :> "PDFTextField") @@ ("agree" :> "PDFCheckBox") @@
  ("plan" :> "PDFRadioGroup") @@ ("country" :> "PDFDropdown")

\* the options of the radio group; select() throws on any other value
RadioOptions == {"gold"}

(***************************************************************************)
(* The edits of a request (interfaces FormFillData, SignatureOptions,      *)
(* TextInsertion, ImageInsertion).                                         *)
(***************************************************************************)
Kinds == <<"form", "signature", "text", "image">>

FormItems ==
  { [fieldName |-> "name",    fieldValue |-> "Ann"],
    [fieldName |-> "agree",   fieldValue |-> ""],
    [fieldName |-> "plan",    fieldValue |-> "gold"],
    [fieldName |-> "plan",    fieldValue |-> "zinc"],
    [fieldName |-> "country", fieldValue |-> "NZ"],
    [fieldName |-> "missing", fieldValue |-> "x"] }

\* a SignatureOptions object (fontSize and color left out: never set by the CLI)
Signature(position, imagePath, text) ==
  [position |-> position, imagePath |-> imagePath, text |-> text]

\* a TextInsertion object; color is <<>> when absent
TextInsertion(text, position, pageNumber, fontSize) ==
  [text |-> text, position |-> position, pageNumber |-> pageNumber,
   fontSize |-> fontSize, color |-> <<>>, fontName |-> Undef]

\* an ImageInsertion object
ImageInsertion(imagePath, position, pageNumber) ==
  [imagePath |-> imagePath, position |-> position, pageNumber |-> pageNumber]

Point(x, y) == <<Num(x), Num(y)>>
Box(x1, y1, x2, y2) == <<Num(x1), Num(y1), Num(x2), Num(y2)>>

SignatureItems ==
  { Signature(Box(400, 700, 500, 750), "sig.png", Undef),
    Signature(Box(400, 700, 500, 750), "sig.jpg", Undef),
    Signature(Box(400, 700, 500, 750), "absent.png", Undef),
    Signature(Box(400, 700, 500, 750), "sig.gif", Undef),
    Signature(Box(400, 50, 500, 100), Undef, "Authorized Signature") }

TextItems ==
  { TextInsertion("APPROVED", Point(450, 50), UNDEFINED, Num(16)),
    TextInsertion("DRAFT", Point(100, 100), Num(1), UNDEFINED),
    TextInsertion("DRAFT", Point(100, 100), Num(MaxPages + 7), UNDEFINED),
    TextInsertion("NON_ANSI", Point(100, 100), Num(0), UNDEFINED) }

ImageItems ==
  { ImageInsertion("logo.png", Box(0, 0, 50, 50), UNDEFINED),
    ImageInsertion("logo.png", Box(0, 0, 50, 50), Num(MaxPages + 7)),
    ImageInsertion("broken.png", Box(0, 0, 50, 50), Num(0)),
    ImageInsertion("absent.png", Box(0, 0, 50, 50), Num(0)),
    ImageInsertion("logo.bmp", Box(0, 0, 50, 50), Num(1)) }

(***************************************************************************)
(* One edit applied to the open document.  A loop body is the sequence of  *)
(* its statements, each already decided by the environment:                *)
(*   "nop"    a call that returned (a file read, an image embedded)        *)
(*   "throw"  a call that threw                                            *)
(*   "mutate" a call that changed the document (setText, check, select,    *)
(*            drawText, drawImage)                                         *)
(*   "count"  the loop's counter++                                         *)
(*   "skip"   continue, or the end of an if without a matching branch      *)
(* RunBody executes it and returns                                         *)
(*   mutated : the document was changed                                    *)
(*   counted : the counter was incremented                                 *)
(*   escaped : an exception is propagating                                 *)
(***************************************************************************)
Effect(m, c, e) == [mutated |-> m, counted |-> c, escaped |-> e]

\* a call that throws unless cond
OrThrow(cond) == IF cond THEN "nop" ELSE "throw"

RECURSIVE RunFrom(_, _)
RunFrom(body, eff) ==
  IF body = <<>> THEN eff
  ELSE LET st == Head(body) IN
       CASE st = "throw"  -> [eff EXCEPT !.escaped = TRUE]
         [] st = "skip"   -> eff
         [] st = "mutate" -> RunFrom(Tail(body), [eff EXCEPT !.mutated = TRUE])
         [] st = "count"  -> RunFrom(Tail(body), [eff EXCEPT !.counted = TRUE])
         [] OTHER         -> RunFrom(Tail(body), eff)

RunBody(body) == RunFrom(body, Effect(FALSE, FALSE, FALSE))

\* try { body } catch (error) { console.warn(...) }  around one edit
TryCatch(eff) == [eff EXCEPT !.escaped = FALSE]

\* pages[i] of pdfDoc.getPages(): a page, or undefined
PageExists(pageCount, i) == i >= 0 /\ i < pageCount

\* statements of the loop body of fillForms
fillFormsBody(formItem) ==
  IF formItem.fieldName \notin DOMAIN FormFields
  THEN <<"skip">>                                     \* fields.find: undefined
  ELSE LET kind == FormFields[formItem.fieldName] IN
       CASE kind = "PDFTextField" -> <<"mutate", "count">>
         [] kind = "PDFCheckBox"  -> <<"mutate", "count">>
         [] kind = "PDFRadioGroup" ->
              <<OrThrow(formItem.fieldValue \in RadioOptions), "mutate", "count">>
         [] OTHER -> <<"skip">>

\* statements of the loop body of addSignatures; the page is always pages[0]
addSignaturesBody(pageCount, signature) ==
  IF Truthy(signature.imagePath)
  THEN IF PathExt(signature.imagePath) \in {"png", "jpg"}
       THEN <<OrThrow(Readable(signature.imagePath)),
              OrThrow(Decodes(signature.imagePath)),
              OrThrow(PageExists(pageCount, 0)), "mutate", "count">>
       ELSE <<"skip">>
  ELSE IF Truthy(signature.text)
       THEN <<OrThrow(PageExists(pageCount, 0) /\ Encodable(signature.text)),
              "mutate", "count">>
       ELSE <<"skip">>

\* statements of the loop body of insertText
insertTextBody(pageCount, textItem) ==
  IF ~PageExists(pageCount, OrZero(textItem.pageNumber))
  THEN <<"skip">>
  ELSE <<OrThrow(Encodable(textItem.text)), "mutate", "count">>

\* statements of the loop body of insertImages
insertImagesBody(pageCount, imageItem) ==
  IF ~PageExists(pageCount, OrZero(imageItem.pageNumber))
  THEN <<"skip">>
  ELSE <<OrThrow(Readable(imageItem.imagePath))>> \o
       (IF PathExt(imageItem.imagePath) \in {"png", "jpg"}
        THEN <<OrThrow(Decodes(imageItem.imagePath)), "mutate", "count">>
        ELSE <<"skip">>)

\* one iteration of the loop of fillForms: the body inside its try/catch
fillFormsItem(formItem) == TryCatch(RunBody(fillFormsBody(formItem)))

\* a variant that counts the signature before it is read, embedded and drawn
addSignaturesItemCountFirst(pageCount, signature) ==
  TryCatch(RunBody(<<"count">> \o
    SelectSeq(addSignaturesBody(pageCount, signature), LAMBDA st : st # "count")))

\* one iteration of the loop of addSignatures
addSignaturesItem(pageCount, signature) ==
  TryCatch(RunBody(addSignaturesBody(pageCount, signature)))

\* a variant without the try/catch around the body
insertTextItemUncaught(pageCount, textItem) ==
  RunBody(insertTextBody(pageCount, textItem))

\* one iteration of the loop of insertText
insertTextItem(pageCount, textItem) ==
  TryCatch(RunBody(insertTextBody(pageCount, textItem)))

\* one iteration of the loop of insertImages
insertImagesItem(pageCount, imageItem) ==
  TryCatch(RunBody(insertImagesBody(pageCount, imageItem)))

\* a variant in which every edit is drawn on the first page
TargetPageFirst(kind, item) == IF kind = "form" THEN -1 ELSE 0

\* the page an edit draws on (-1: a form field, which is on no page)
TargetPage(kind, item) ==
  CASE kind = "form"      -> -1
    [] kind = "signature" -> 0
    [] OTHER              -> OrZero(item.pageNumber)

\* the loop body of the phase of one kind
ItemEffect(kind, pageCount, item) ==
  CASE kind = "form"      -> fillFormsItem(item)
    [] kind = "signature" -> addSignaturesItem(pageCount, item)
    [] kind = "text"      -> insertTextItem(pageCount, item)
    [] OTHER              -> insertImagesItem(pageCount, item)

(***************************************************************************)
(* State of one call of PDFModifier.modifyPdf.                             *)
(***************************************************************************)
VARIABLES
  request,            \* the options of the call: the four edit lists
  source,             \* what opening inputPath gave: [opened, pageCount]
  pc,                 \* where the call is: "call", a kind, "save", "done"
  idx,                \* edits of the current kind already tried
  counts,             \* formsFilled, signaturesAdded, textInserted, imagesInserted
  modificationsCount, \* the local of modifyWithPdfLib
  docOps,             \* the changes made to pdfDoc, in order
  attempted,          \* history: the edits whose loop body has run, in order
  persist,            \* what saving gave: "none" (not tried), "ok", "failed"
  outFile,            \* the file at outputPath: [written, ops]
  result              \* the PDFModificationResult returned, once returned

modVars == <<request, source, pc, idx, counts, modificationsCount, docOps,
             attempted, persist, outFile, result>>

(***************************************************************************)
(* State of one run of the batch-modify command.                           *)
(***************************************************************************)
VARIABLES
  options,        \* the parsed command line
  inputDir,       \* the PDF files under inputDir, in glob order
  bpc,            \* where the action is: "start", "find", "config", "template",
                  \* "cli", "preview", "process", "summary", "exit"
  outputDir,      \* the output directory: "missing", "existing", "created"
  files,          \* the discovered files
  modifications,  \* the edit set being built, then applied to every file
  tasks,          \* per file: "pending", "running", "settled"
  taskOutcome,    \* per file: the object its async function returned
  settleOrder,    \* history: the files in the order their processing ended
  results,        \* the results array
  outDir,         \* the files of outputDir: basename -> content
  summary,        \* the totals printed at the end
  exitCode,       \* -1 while running, then the exit code of the process
  console,        \* history: the kinds of message printed
  reads,          \* history: the input files opened, in order
  given,          \* history, per file: the textInsertions modifyPdf was called with
  preview         \* the lines previewModifications printed

batchVars == <<options, inputDir, bpc, outputDir, files, modifications, tasks,
               taskOutcome, settleOrder, results, outDir, summary, exitCode,
               console, reads, given, preview>>

(***************************************************************************)
(* State of one call of parsePageRange.                                    *)
(***************************************************************************)
VARIABLES
  range,          \* the range string, as its characters
  totalPages,     \* the page count of the document
  rpc,            \* "call", then "done"
  pages           \* the list returned

rangeVars == <<range, totalPages, rpc, pages>>

(***************************************************************************)
(* State of one PdfParser and of the call made on it.                      *)
(***************************************************************************)
VARIABLES
  config,         \* this.config of the parser
  pdfFile,        \* the file the call is given, and what the libraries make of it
  epc,            \* "new", "validate", "read", "parse", "return", "done"
  op,             \* the method called: "parseFile", "extractPages", "searchText"
  argument,       \* the range extractPages is given, the query searchText is given
  validation,     \* history: what validateFile returned, if it was called
  bytesRead,      \* history: the file was read for parsing
  parseResult,    \* the ProcessingResult of parseFile
  output          \* what the method returned, or that it threw

extractVars == <<config, pdfFile, epc, op, argument, validation, bytesRead,
                 parseResult, output>>

(***************************************************************************)
(* State of one PdfGenerator and of the calls that run on it.              *)
(***************************************************************************)
VARIABLES
  engineCache,    \* this.engineCache: engine name -> "none", "yes" or "no"
  installed,      \* the engines `which` finds
  calls,          \* per call: the engines it still asks for and where it is
  probes,         \* history: per engine, how often `which` was run
  answers         \* history: per engine, the values isEngineAvailable returned

engineVars == <<engineCache, installed, calls, probes, answers>>

vars == <<modVars, batchVars, rangeVars, extractVars, engineVars>>

\* the variables a call of modifyPdf, a run of batch-modify, a call of
\* parsePageRange, a call on a PdfParser, the calls on a PdfGenerator leave alone
exceptModVars == <<batchVars, rangeVars, extractVars, engineVars>>
exceptBatchVars == <<modVars, rangeVars, extractVars, engineVars>>
exceptRangeVars == <<modVars, batchVars, extractVars, engineVars>>
exceptExtractVars == <<modVars, batchVars, rangeVars, engineVars>>
exceptEngineVars == <<modVars, batchVars, rangeVars, extractVars>>

\* the edit list of a kind in a request
EditsOf(req, kind) ==
  CASE kind = "form"      -> req.formData
    [] kind = "signature" -> req.signatures
    [] kind = "text"      -> req.textInsertions
    [] OTHER              -> req.imageInsertions

TotalEdits(req) ==
  Len(req.formData) + Len(req.signatures) + Len(req.textInsertions) +
  Len(req.imageInsertions)

\* the requests modifyPdf is called with: at most MaxEdits edits in all
Requests ==
  UNION { [ formData        : [1..nf -> FormItems],
            signatures      : [1..ns -> SignatureItems],
            textInsertions  : [1..nt -> TextItems],
            imageInsertions : [1..ni -> ImageItems] ] :
          <<nf, ns, nt, ni>> \in
            { t \in (0..MaxEdits) \X (0..MaxEdits) \X (0..MaxEdits) \X (0..MaxEdits) :
                t[1] + t[2] + t[3] + t[4] <= MaxEdits } }

\* what fs.readFileSync(inputPath) and PDFDocument.load can give
Sources ==
  {[opened |-> FALSE, pageCount |-> 0]} \cup
  {[opened |-> TRUE, pageCount |-> n] : n \in 0..MaxPages}

NoResult == [returned |-> FALSE, success |-> FALSE, modificationsApplied |-> 0,
             signaturesAdded |-> 0, formsFilled |-> 0, textInsertions |-> 0,
             imageInsertions |-> 0, outputPath |-> "", errorMessage |-> Undef]

\* the object modifyPdf returns from its catch block
FailureResult(message) ==
  [returned |-> TRUE, success |-> FALSE, modificationsApplied |-> 0,
   signaturesAdded |-> 0, formsFilled |-> 0, textInsertions |-> 0,
   imageInsertions |-> 0, outputPath |-> "", errorMessage |-> message]

\* a variant of modifyPdf without its catch block: the exception propagates
modifyPdfRethrow(message) == [NoResult EXCEPT !.errorMessage = message]

\* the catch block of modifyPdf: every exception becomes a returned failure
modifyPdfCatch(message) == FailureResult(message)

\* the object modifyWithPdfLib returns after the save
SuccessResult(total, cnt, outputPath) ==
  [returned |-> TRUE, success |-> TRUE, modificationsApplied |-> total,
   signaturesAdded |-> cnt["signature"], formsFilled |-> cnt["form"],
   textInsertions |-> cnt["text"], imageInsertions |-> cnt["image"],
   outputPath |-> outputPath, errorMessage |-> Undef]

ZeroCounts == [k \in {"form", "signature", "text", "image"} |-> 0]

\* a variant in which the text block comes before the signature block
PhaseOrderTextEarly == <<"form", "text", "signature", "image", "save">>

\* the order of the four blocks of modifyWithPdfLib, then the save
PhaseOrder == <<"form", "signature", "text", "image", "save">>

PhaseAfter(p) ==
  LET i == CHOOSE j \in 1..Len(PhaseOrder) : PhaseOrder[j] = p IN PhaseOrder[i + 1]

(***************************************************************************)
(* modifyPdf as a function of its request and of what the environment      *)
(* answers: the same blocks and loop bodies, run to the end.  The batch    *)
(* uses it for the call it makes per file.                                 *)
(***************************************************************************)
\* the edits in the order the blocks from PhaseOrder[p] on try them
RECURSIVE EditOrderFrom(_, _)
EditOrderFrom(req, p) ==
  IF PhaseOrder[p] = "save" THEN <<>>
  ELSE [i \in 1..Len(EditsOf(req, PhaseOrder[p])) |-> <<PhaseOrder[p], i>>] \o
       EditOrderFrom(req, p + 1)

\* the state of the loops st = [ops, counts, escaped] after one more iteration
\* with effect eff
AfterEdit(st, kind, i, page, eff) ==
  [ops     |-> IF eff.mutated
               THEN Append(st.ops, [kind |-> kind, index |-> i, page |-> page])
               ELSE st.ops,
   counts  |-> IF eff.counted THEN [st.counts EXCEPT ![kind] = @ + 1] ELSE st.counts,
   escaped |-> eff.escaped]

\* the loops run over the edits left, from the state st
RECURSIVE RunEdits(_, _, _, _)
RunEdits(order, req, pageCount, st) ==
  IF order = <<>> \/ st.escaped THEN st
  ELSE RunEdits(Tail(order), req, pageCount,
         AfterEdit(st, Head(order)[1], Head(order)[2],
                   TargetPage(Head(order)[1],
                              EditsOf(req, Head(order)[1])[Head(order)[2]]),
                   ItemEffect(Head(order)[1], pageCount,
                              EditsOf(req, Head(order)[1])[Head(order)[2]])))

\* the save and the return of modifyWithPdfLib after the loops ended in st
SaveAndReturn(st, persists, outputPath) ==
  IF st.escaped \/ ~persists
  THEN [result |-> modifyPdfCatch("PDF modification failed"),
        written |-> FALSE, ops |-> <<>>]
  ELSE [result |-> SuccessResult(
                     st.counts["form"] + st.counts["signature"] +
                     st.counts["text"] + st.counts["image"],
                     st.counts, outputPath),
        written |-> TRUE, ops |-> st.ops]

\* modifyPdf(options): the result returned, and what was written to outputPath
modifyPdf(req, src, persists, outputPath) ==
  IF ~src.opened
  THEN [result |-> modifyPdfCatch("open failed"), written |-> FALSE, ops |-> <<>>]
  ELSE SaveAndReturn(
         RunEdits(EditOrderFrom(req, 1), req, src.pageCount,
                  [ops |-> <<>>, counts |-> ZeroCounts, escaped |-> FALSE]),
         persists, outputPath)

InitModify ==
  /\ request \in Requests
  /\ source = [opened |-> FALSE, pageCount |-> 0]
  /\ pc = "call"
  /\ idx = 0
  /\ counts = ZeroCounts
  /\ modificationsCount = 0
  /\ docOps = <<>>
  /\ attempted = <<>>
  /\ persist = "none"
  /\ outFile = [written |-> FALSE, ops |-> <<>>]
  /\ result = NoResult
  \* no batch is running
  /\ options = [pattern |-> "*.pdf"]
  /\ inputDir = <<>>
  /\ bpc = "exit"
  /\ outputDir = "missing"
  /\ files = <<>>
  /\ modifications = <<>>
  /\ tasks = <<>>
  /\ taskOutcome = <<>>
  /\ settleOrder = <<>>
  /\ results = <<>>
  /\ outDir = <<>>
  /\ summary = <<>>
  /\ exitCode = 0
  /\ console = <<>>
  /\ reads = <<>>
  /\ given = <<>>
  /\ preview = <<>>
  \* no page range is being parsed
  /\ range = <<>>
  /\ totalPages = 0
  /\ rpc = "done"
  /\ pages = <<>>
  \* no parser and no generator is in use
  /\ config = <<>>
  /\ pdfFile = <<>>
  /\ epc = "done"
  /\ op = "none"
  /\ argument = <<>>
  /\ validation = <<>>
  /\ bytesRead = FALSE
  /\ parseResult = <<>>
  /\ output = <<>>
  /\ engineCache = <<>>
  /\ installed = {}
  /\ calls = <<>>
  /\ probes = <<>>
  /\ answers = <<>>

\* fs.readFileSync(inputPath); PDFDocument.load(existingPdfBytes)
\* a throw leaves modifyWithPdfLib and is caught by modifyPdf
LoadDocument ==
  /\ pc = "call"
  /\ \E src \in Sources :
       /\ source' = src
       /\ IF src.opened
          THEN /\ pc' = PhaseOrder[1]
               /\ result' = result
          ELSE /\ pc' = "done"
               /\ result' = modifyPdfCatch("open failed")
  /\ UNCHANGED <<request, idx, counts, modificationsCount, docOps, attempted,
                 persist, outFile>>
  /\ UNCHANGED exceptModVars

\* one iteration of the loop of the current block
ApplyEdit(kind) ==
  /\ pc = kind
  /\ idx < Len(EditsOf(request, kind))
  /\ LET item == EditsOf(request, kind)[idx + 1]
         eff  == ItemEffect(kind, source.pageCount, item)
     IN  /\ attempted' = Append(attempted, <<kind, idx + 1>>)
         /\ docOps' = IF eff.mutated
                      THEN Append(docOps, [kind |-> kind, index |-> idx + 1,
                                           page |-> TargetPage(kind, item)])
                      ELSE docOps
         /\ counts' = IF eff.counted
                      THEN [counts EXCEPT ![kind] = @ + 1]
                      ELSE counts
         /\ IF eff.escaped
            THEN \* catch (error) { throw new Error(...) }, then modifyPdf's catch
                 /\ pc' = "done"
                 /\ idx' = idx
                 /\ result' = modifyPdfCatch("PDF modification failed")
            ELSE /\ pc' = pc
                 /\ idx' = idx + 1
                 /\ result' = result
  /\ UNCHANGED <<request, source, modificationsCount, persist, outFile>>
  /\ UNCHANGED exceptModVars

\* a variant that adds the count of the form block only
FinishBlockFormsOnly(kind) ==
  /\ pc = kind
  /\ idx = Len(EditsOf(request, kind))
  /\ modificationsCount' = modificationsCount + (IF kind = "form" THEN counts[kind] ELSE 0)
  /\ pc' = PhaseAfter(kind)
  /\ idx' = 0
  /\ UNCHANGED <<request, source, counts, docOps, attempted, persist, outFile, result>>
  /\ UNCHANGED exceptModVars

\* the loop of the current block is over:  modificationsCount += its count
FinishBlock(kind) ==
  /\ pc = kind
  /\ idx = Len(EditsOf(request, kind))
  /\ modificationsCount' = modificationsCount + counts[kind]
  /\ pc' = PhaseAfter(kind)
  /\ idx' = 0
  /\ UNCHANGED <<request, source, counts, docOps, attempted, persist, outFile, result>>
  /\ UNCHANGED exceptModVars

fillForms     == ApplyEdit("form")
addSignatures == ApplyEdit("signature")
insertText    == ApplyEdit("text")
insertImages  == ApplyEdit("image")
NextBlock     == \E kind \in {"form", "signature", "text", "image"} : FinishBlock(kind)

\* pdfDoc.save(); fs.writeFileSync(outputPath, pdfBytes); return {success: true, ...}
\* a throw of either is rethrown and caught by modifyPdf
SaveDocument ==
  /\ pc = "save"
  /\ \E saved \in BOOLEAN, wrote \in BOOLEAN :
       IF saved /\ wrote
       THEN /\ persist' = "ok"
            /\ outFile' = [written |-> TRUE, ops |-> docOps]
            /\ result' = SuccessResult(modificationsCount, counts, "out.pdf")
       ELSE /\ persist' = "failed"
            /\ outFile' = outFile
            /\ result' = modifyPdfCatch("PDF modification failed")
  /\ pc' = "done"
  /\ UNCHANGED <<request, source, idx, counts, modificationsCount, docOps, attempted>>
  /\ UNCHANGED exceptModVars

NextModify ==
  \/ LoadDocument
  \/ fillForms
  \/ addSignatures
  \/ insertText
  \/ insertImages
  \/ NextBlock
  \/ SaveDocument

(***************************************************************************)
(* batch-modify: the command line and the files.                           *)
(***************************************************************************)
\* parseFloat / parseInt of one token of an option value
ParseNumber(token) ==
  CASE token = "0"   -> Num(0)
    [] token = "1"   -> Num(1)
    [] token = "12"  -> Num(12)
    [] token = "50"  -> Num(50)
    [] token = "100" -> Num(100)
    [] token = "400" -> Num(400)
    [] token = "500" -> Num(500)
    [] token = "700" -> Num(700)
    [] token = "750" -> Num(750)
    [] OTHER         -> NAN

\* value.split(',').map(x => parseFloat(x.trim())); the value is kept as its tokens
ParsePosition(tokens) == [i \in 1..Len(tokens) |-> ParseNumber(tokens[i])]

\* the modifications object: its own keys, and the value of each key
\* (an absent key reads as [] or false:  modifications.x || [])
Modifications(keys, signatures, formData, textInsertions, allPages) ==
  [keys |-> keys, signatures |-> signatures, formData |-> formData,
   textInsertions |-> textInsertions, allPages |-> allPages]

\* {}
EmptyObject == Modifications({}, <<>>, <<>>, <<>>, FALSE)

\* { ...a, ...b }: every key of b replaces the key of a
Spread(a, b) ==
  Modifications(a.keys \cup b.keys,
    IF "signatures" \in b.keys THEN b.signatures ELSE a.signatures,
    IF "formData" \in b.keys THEN b.formData ELSE a.formData,
    IF "textInsertions" \in b.keys THEN b.textInsertions ELSE a.textInsertions,
    IF "allPages" \in b.keys THEN b.allPages ELSE a.allPages)

\* JSON.parse(fs.readFileSync(options.config)): the files --config can name
ReadConfig(name) ==
  CASE name = "text.json" ->
         [parses |-> TRUE,
          value  |-> Modifications({"textInsertions", "formData"}, <<>>,
                       <<[fieldName |-> "name", fieldValue |-> "Ann"]>>,
                       <<TextInsertion("CONFIG", Point(50, 50), Num(1), UNDEFINED)>>,
                       FALSE)]
    [] name = "sig.json" ->
         [parses |-> TRUE,
          value  |-> Modifications({"signatures"},
                       <<Signature(Box(400, 700, 500, 750), "sig.png", Undef)>>,
                       <<>>, <<>>, FALSE)]
    [] name = "styled.json" ->
         [parses |-> TRUE,
          value  |-> Modifications({"textInsertions"}, <<>>, <<>>,
                       <<[TextInsertion("DRAFT", Point(100, 100), UNDEFINED, Num(12))
                            EXCEPT !.color = <<1, 0, 0>>, !.fontName = "Courier"]>>,
                       FALSE)]
    [] name = "empty.json" -> [parses |-> TRUE, value |-> EmptyObject]
    [] OTHER -> [parses |-> FALSE, value |-> EmptyObject]

ConfigNames == {"text.json", "sig.json", "styled.json", "empty.json", "bad.json"}

\* loadModificationTemplate(templateName): templates[templateName], or undefined
loadModificationTemplate(templateName) ==
  CASE templateName = "approval-stamp" ->
         [found |-> TRUE,
          value |-> Modifications({"textInsertions"}, <<>>, <<>>,
                      <<TextInsertion("APPROVED", Point(450, 50), UNDEFINED, Num(16)),
                        TextInsertion("Date: TODAY", Point(450, 30), UNDEFINED, Num(10))>>,
                      FALSE)]
    [] templateName = "confidential-watermark" ->
         [found |-> TRUE,
          value |-> Modifications({"textInsertions", "allPages"}, <<>>, <<>>,
                      <<TextInsertion("CONFIDENTIAL", Point(200, 400), UNDEFINED, Num(48))>>,
                      TRUE)]
    [] templateName = "signature-bottom-right" ->
         [found |-> TRUE,
          value |-> Modifications({"signatures"},
                      <<Signature(Box(400, 50, 500, 100), Undef, "Authorized Signature")>>,
                      <<>>, <<>>, FALSE)]
    [] templateName = "review-stamp" ->
         [found |-> TRUE,
          value |-> Modifications({"textInsertions"}, <<>>, <<>>,
                      <<TextInsertion("REVIEWED", Point(50, 50), UNDEFINED, Num(12)),
                        TextInsertion("Agent 2 - NOW", Point(50, 30), UNDEFINED, Num(8))>>,
                      FALSE)]
    [] OTHER -> [found |-> FALSE, value |-> EmptyObject]

TemplateNames == {"approval-stamp", "confidential-watermark",
                  "signature-bottom-right", "review-stamp", "no-such-template"}

\* the text edit the flags --add-text, --text-position, --text-page, --font-size give
CliTextInsertion(opts) ==
  TextInsertion(opts.addText, ParsePosition(opts.textPosition),
                ParseNumber(opts.textPage), ParseNumber(opts.fontSize))

\* the modifications object built from the edit flags
BuildFromCliArgs(opts) ==
  Modifications({"signatures", "formData", "textInsertions", "allPages"},
    IF Truthy(opts.addSignature)
    THEN <<Signature(ParsePosition(opts.signaturePosition), opts.addSignature, Undef)>>
    ELSE <<>>,
    \* a --fill-form value is kept as its ':'-separated parts
    [i \in 1..Len(SelectSeq(opts.fillForm, LAMBDA parts : Len(parts) > 1)) |->
       LET parts == SelectSeq(opts.fillForm, LAMBDA q : Len(q) > 1)[i]
       IN  [fieldName |-> parts[1], fieldValue |-> parts[2]]],
    IF Truthy(opts.addText) THEN <<CliTextInsertion(opts)>> ELSE <<>>,
    opts.allPages)

\* a variant that builds from the flags whatever config and template gave
CliArgsAlways(mods) == TRUE

\* Object.keys(modifications).length === 0
NoConfigOrTemplate(mods) == mods.keys = {}

\* the paths a run can find under inputDir, in glob order, with their depth
PathPool == << [path |-> "in/a.pdf",     basename |-> "a.pdf", depth |-> 0],
               [path |-> "in/b.pdf",     basename |-> "b.pdf", depth |-> 0],
               [path |-> "in/sub/a.pdf", basename |-> "a.pdf", depth |-> 1],
               [path |-> "in/sub/b.pdf", basename |-> "b.pdf", depth |-> 1] >>

BaseNames == {PathPool[i].basename : i \in 1..Len(PathPool)}

\* what a file is: unparseable, a document of n pages, or a document whose
\* output cannot be saved
FileKinds ==
  {[doc |-> [opened |-> FALSE, pageCount |-> 0], persists |-> TRUE]} \cup
  {[doc |-> [opened |-> TRUE, pageCount |-> n], persists |-> TRUE] : n \in 1..MaxPages} \cup
  {[doc |-> [opened |-> TRUE, pageCount |-> 1], persists |-> FALSE]}

File(where, kind) ==
  [path |-> where.path, basename |-> where.basename, depth |-> where.depth,
   doc |-> kind.doc, persists |-> kind.persists]

\* the directories: at most MaxFiles of the paths, each holding some file
Directories ==
  UNION { { [i \in 1..Len(sel) |-> File(PathPool[sel[i]], kinds[i])] :
              kinds \in [1..Len(sel) -> FileKinds] } :
          sel \in { q \in SeqsUpTo(1..Len(PathPool), MaxFiles) :
                      \A i \in 1..(Len(q) - 1) : q[i] < q[i + 1] } }

\* glob.sync(path.join(inputDir, options.pattern)).filter(... endsWith('.pdf'))
Glob(pattern, dir) ==
  SelectSeq(dir, LAMBDA f : pattern = "**/*.pdf" \/ f.depth = 0)

DefaultOptions ==
  [pattern |-> "*.pdf", config |-> Undef, template |-> Undef,
   addSignature |-> Undef, signaturePosition |-> <<"400", "700", "500", "750">>,
   fillForm |-> <<>>, addText |-> Undef, textPosition |-> <<"100", "100">>,
   textPage |-> "0", fontSize |-> "12", allPages |-> FALSE,
   previewOnly |-> FALSE, parallel |-> FALSE]

\* every combination of the options that choose the edit set and the flow
AllOptions ==
  { [DefaultOptions EXCEPT !.config = c, !.template = t, !.addSignature = sg,
                           !.fillForm = ff, !.addText = tx, !.allPages = ap,
                           !.previewOnly = pv, !.parallel = par] :
      c \in ConfigNames \cup {Undef}, t \in TemplateNames \cup {Undef},
      sg \in {Undef, "sig.png"}, ff \in {<<>>, <<<<"name", "Ann">>, <<"nocolon">>>>},
      tx \in {Undef, "STAMP"}, ap \in BOOLEAN, pv \in BOOLEAN, par \in BOOLEAN }

\* the edit sets the runs over every directory are made with
RunOptions ==
  { [o EXCEPT !.pattern = pt, !.allPages = ap, !.parallel = par] :
      o \in { [DefaultOptions EXCEPT !.template = "approval-stamp"],
              [DefaultOptions EXCEPT !.config = "text.json"],
              [DefaultOptions EXCEPT !.addText = "STAMP", !.textPage = "1",
                                     !.fillForm = <<<<"name", "Ann">>>>] },
      pt \in {"*.pdf", "**/*.pdf"}, ap \in BOOLEAN, par \in BOOLEAN }

\* command lines whose position strings have every shape: the right number of
\* numeric tokens, too few or too many tokens, a token that is not a number
GeometryOptions ==
  { [DefaultOptions EXCEPT !.addText = tx, !.textPosition = tp,
                           !.addSignature = sg, !.signaturePosition = sp,
                           !.parallel = par] :
      tx \in {Undef, "STAMP"},
      tp \in {<<"100", "100">>, <<"100">>, <<"100", "abc">>, <<"100", "100", "100">>},
      sg \in {Undef, "sig.png"},
      sp \in {<<"400", "700", "500", "750">>, <<"400", "700", "500">>,
              <<"400", "700", "abc", "750">>},
      par \in BOOLEAN }

\* the directories the runs over every option combination are made on
SampleDirectories ==
  { <<>>,
    << File(PathPool[1], [doc |-> [opened |-> TRUE, pageCount |-> 1], persists |-> TRUE]),
       File(PathPool[2], [doc |-> [opened |-> TRUE, pageCount |-> MaxPages], persists |-> TRUE]) >>,
    << File(PathPool[1], [doc |-> [opened |-> FALSE, pageCount |-> 0], persists |-> TRUE]) >> }

(***************************************************************************)
(* batch-modify: one file.                                                 *)
(***************************************************************************)
\* the loops of applyModificationsAllPages: one copy of every text edit per page
RECURSIVE ExpandAllPages(_, _, _)
ExpandAllPages(baseTextInsertions, pageNum, pageCount) ==
  IF pageNum >= pageCount THEN <<>>
  ELSE [i \in 1..Len(baseTextInsertions) |->
          TextInsertion(baseTextInsertions[i].text, baseTextInsertions[i].position,
                        Num(pageNum), baseTextInsertions[i].fontSize)] \o
       ExpandAllPages(baseTextInsertions, pageNum + 1, pageCount)

\* a variant that pushes the copies onto the list of the shared object
SharedAfterExpansionInPlace(mods, allTextInsertions) ==
  [mods EXCEPT !.textInsertions = allTextInsertions]

\* const allTextInsertions: TextInsertion[] = []; the pushes of the loops go to
\* this array, so the shared modifications object is left as it was
SharedAfterExpansion(mods, allTextInsertions) == mods

\* modifyPdf was not called for the file
NotCalled == [called |-> FALSE, textInsertions |-> <<>>]

\* modifyPdf was called with these textInsertions
CalledWith(textInsertions) == [called |-> TRUE, textInsertions |-> textInsertions]

\* the request modifier.modifyPdf is called with for a file (no imageInsertions)
BatchRequest(mods, textInsertions) ==
  [formData |-> mods.formData, signatures |-> mods.signatures,
   textInsertions |-> textInsertions, imageInsertions |-> <<>>]

\* applyModificationsAllPages: its own load of the file throws when it cannot open
applyModificationsAllPages(file, outputFile, mods) ==
  IF ~file.doc.opened
  THEN [threw |-> TRUE, message |-> "open failed", given |-> NotCalled,
        shared |-> mods,
        out |-> [result |-> NoResult, written |-> FALSE, ops |-> <<>>]]
  ELSE [threw |-> FALSE, message |-> Undef,
        given |-> CalledWith(ExpandAllPages(mods.textInsertions, 0,
                                            file.doc.pageCount)),
        shared |-> SharedAfterExpansion(mods,
                     ExpandAllPages(mods.textInsertions, 0, file.doc.pageCount)),
        out |-> modifyPdf(
                  BatchRequest(mods, ExpandAllPages(mods.textInsertions, 0,
                                                    file.doc.pageCount)),
                  file.doc, file.persists, outputFile)]

\* the object of the results array for one file
ResultEntry(file, status, n, error) ==
  [file |-> file.basename, status |-> status, modifications |-> n, error |-> error]

NoEntry == [file |-> "", status |-> "none", modifications |-> 0, error |-> Undef]

\* what the per-file function makes of the call's outcome
FileOutcome(file, call) ==
  [threw   |-> call.threw,
   message |-> call.message,
   given   |-> call.given,
   shared  |-> call.shared,
   written |-> call.out.written,
   ops     |-> call.out.ops,
   entry   |-> IF call.threw THEN NoEntry
               ELSE IF call.out.result.success
                    THEN ResultEntry(file, "success",
                                     call.out.result.modificationsApplied, Undef)
                    ELSE ResultEntry(file, "failed", 0, call.out.result.errorMessage)]

\* the body of the try of the per-file function; the output file is
\* path.join(outputDir, path.basename(file))
ProcessFileBody(file, opts, mods) ==
  FileOutcome(file,
    IF opts.allPages /\ Len(mods.textInsertions) > 0
    THEN applyModificationsAllPages(file, file.basename, mods)
    ELSE [threw |-> FALSE, message |-> Undef,
          given |-> CalledWith(mods.textInsertions), shared |-> mods,
          out |-> modifyPdf(BatchRequest(mods, mods.textInsertions),
                            file.doc, file.persists, file.basename)])

\* the catch of the per-file function: a throw becomes a failed entry
CatchPerFile(file, b) ==
  IF b.threw
  THEN [b EXCEPT !.threw = FALSE,
                 !.entry = ResultEntry(file, "failed", 0, b.message)]
  ELSE b

\* a variant without the catch of the per-file function
ProcessFileUncaught(file, opts, mods) == ProcessFileBody(file, opts, mods)

\* the per-file function: the body inside its try/catch
ProcessFile(file, opts, mods) ==
  CatchPerFile(file, ProcessFileBody(file, opts, mods))

(***************************************************************************)
(* modify: the single-document command, as a function of its command line  *)
(* and of the file it is given.                                            *)
(***************************************************************************)
\* a variant that ends with exit code 0 whatever the result
modifyExitCodeZero(res) == 0

\* if (result.success) { ... } else { spinner.fail(...); process.exit(1) }
modifyExitCode(res) == IF res.success THEN 0 ELSE 1

\* the edits the modify action builds from its flags
modifyRequest(opts) ==
  [signatures |->
     IF Truthy(opts.addSignature)
     THEN <<Signature(ParsePosition(opts.signaturePosition), opts.addSignature, Undef)>>
     ELSE <<>>,
   formData |->
     [i \in 1..Len(SelectSeq(opts.fillForm, LAMBDA parts : Len(parts) > 1)) |->
        LET parts == SelectSeq(opts.fillForm, LAMBDA q : Len(q) > 1)[i]
        IN  [fieldName |-> parts[1], fieldValue |-> parts[2]]],
   textInsertions |->
     IF Truthy(opts.addText)
     THEN <<TextInsertion(opts.addText, ParsePosition(opts.textPosition),
                          ParseNumber(opts.textPage), ParseNumber(opts.fontSize))>>
     ELSE <<>>,
   imageInsertions |-> <<>>]

\* the modify action: whether modifyPdf was called, and the exit code
modifyAction(opts, file) ==
  IF Truthy(opts.addSignature) /\ Len(ParsePosition(opts.signaturePosition)) # 4
  THEN [called |-> FALSE, exitCode |-> 1]
  ELSE IF Truthy(opts.addText) /\ Len(ParsePosition(opts.textPosition)) # 2
  THEN [called |-> FALSE, exitCode |-> 1]
  ELSE IF TotalEdits(modifyRequest(opts)) = 0
  THEN [called |-> FALSE, exitCode |-> 0]
  ELSE [called |-> TRUE,
        exitCode |-> modifyExitCode(
                       modifyPdf(modifyRequest(opts), file.doc, file.persists,
                                 "output.pdf").result)]

(***************************************************************************)
(* batch-modify: the action.                                               *)
(***************************************************************************)
NoFile == [exists |-> FALSE, from |-> "", ops |-> <<>>]

NoSummary == [printed |-> FALSE, successful |-> 0, failed |-> 0,
              totalModifications |-> 0]

\* options.parallel && files.length > 1
UseParallel == options.parallel /\ Len(files) > 1

InitBatch ==
  /\ \/ /\ options \in AllOptions /\ inputDir \in SampleDirectories
        /\ outputDir \in {"missing", "existing"}
     \/ /\ options \in RunOptions /\ inputDir \in Directories
        /\ outputDir = "missing"
     \/ /\ options \in GeometryOptions /\ inputDir \in SampleDirectories
        /\ outputDir = "missing"
  /\ bpc = "start"
  /\ files = <<>>
  /\ modifications = EmptyObject
  /\ tasks = <<>>
  /\ taskOutcome = <<>>
  /\ settleOrder = <<>>
  /\ results = <<>>
  /\ outDir = [b \in BaseNames |-> NoFile]
  /\ summary = NoSummary
  /\ exitCode = -1
  /\ console = <<>>
  /\ reads = <<>>
  /\ given = <<>>
  /\ preview = <<>>
  \* no single modifyPdf call is being stepped
  /\ request = [formData |-> <<>>, signatures |-> <<>>, textInsertions |-> <<>>,
                imageInsertions |-> <<>>]
  /\ source = [opened |-> FALSE, pageCount |-> 0]
  /\ pc = "done"
  /\ idx = 0
  /\ counts = ZeroCounts
  /\ modificationsCount = 0
  /\ docOps = <<>>
  /\ attempted = <<>>
  /\ persist = "none"
  /\ outFile = [written |-> FALSE, ops |-> <<>>]
  /\ result = NoResult
  \* no page range is being parsed
  /\ range = <<>>
  /\ totalPages = 0
  /\ rpc = "done"
  /\ pages = <<>>
  \* no parser and no generator is in use
  /\ config = <<>>
  /\ pdfFile = <<>>
  /\ epc = "done"
  /\ op = "none"
  /\ argument = <<>>
  /\ validation = <<>>
  /\ bytesRead = FALSE
  /\ parseResult = <<>>
  /\ output = <<>>
  /\ engineCache = <<>>
  /\ installed = {}
  /\ calls = <<>>
  /\ probes = <<>>
  /\ answers = <<>>

\* a variant of the catch that returns without process.exit(1)
OuterCatchReturn ==
  /\ bpc' = "exit"
  /\ exitCode' = 0
  /\ console' = Append(console, "error")

\* the catch of the action: spinner.fail(...); process.exit(1)
OuterCatch ==
  /\ bpc' = "exit"
  /\ exitCode' = 1
  /\ console' = Append(console, "error")

\* if (!fs.existsSync(outputDir)) fs.mkdirSync(outputDir, { recursive: true })
CreateOutputDir ==
  /\ bpc = "start"
  /\ outputDir' = IF outputDir = "missing" THEN "created" ELSE outputDir
  /\ bpc' = "find"
  /\ UNCHANGED <<preview, given, options, inputDir, files, modifications, tasks, taskOutcome,
                 settleOrder, results, outDir, summary, exitCode, console, reads>>
  /\ UNCHANGED exceptBatchVars

\* the files are globbed; with none the action returns
FindFiles ==
  /\ bpc = "find"
  /\ files' = Glob(options.pattern, inputDir)
  /\ tasks' = [i \in 1..Len(files') |-> "pending"]
  /\ taskOutcome' = [i \in 1..Len(files') |-> NoEntry]
  /\ given' = [i \in 1..Len(files') |-> NotCalled]
  /\ IF Len(files') = 0
     THEN /\ bpc' = "exit"
          /\ exitCode' = 0
          /\ console' = Append(console, "no-files")
     ELSE /\ bpc' = "config"
          /\ exitCode' = exitCode
          /\ console' = Append(console, "found")
  /\ UNCHANGED <<preview, options, inputDir, outputDir, modifications, settleOrder,
                 results, outDir, summary, reads>>
  /\ UNCHANGED exceptBatchVars

\* if (options.config) modifications = JSON.parse(fs.readFileSync(options.config))
LoadConfig ==
  /\ bpc = "config"
  /\ IF ~Truthy(options.config)
     THEN /\ bpc' = "template"
          /\ UNCHANGED <<modifications, exitCode, console>>
     ELSE IF ReadConfig(options.config).parses
          THEN /\ modifications' = ReadConfig(options.config).value
               /\ bpc' = "template"
               /\ console' = Append(console, "config")
               /\ exitCode' = exitCode
          ELSE /\ OuterCatch
               /\ modifications' = modifications
  /\ UNCHANGED <<preview, given, options, inputDir, outputDir, files, tasks, taskOutcome,
                 settleOrder, results, outDir, summary, reads>>
  /\ UNCHANGED exceptBatchVars

\* a variant in which an unknown template name is an error
LoadTemplateStrict ==
  /\ bpc = "template"
  /\ IF ~Truthy(options.template)
     THEN /\ bpc' = "cli"
          /\ UNCHANGED <<modifications, console, exitCode>>
     ELSE IF loadModificationTemplate(options.template).found
          THEN /\ modifications' =
                    Spread(modifications, loadModificationTemplate(options.template).value)
               /\ console' = Append(console, "template")
               /\ bpc' = "cli"
               /\ exitCode' = exitCode
          ELSE /\ OuterCatch
               /\ modifications' = modifications
  /\ UNCHANGED <<preview, given, options, inputDir, outputDir, files, tasks, taskOutcome,
                 settleOrder, results, outDir, summary, reads>>
  /\ UNCHANGED exceptBatchVars

\* if (options.template) { ... modifications = { ...modifications, ...templateConfig } }
LoadTemplate ==
  /\ bpc = "template"
  /\ IF ~Truthy(options.template)
     THEN UNCHANGED <<modifications, console>>
     ELSE IF loadModificationTemplate(options.template).found
          THEN /\ modifications' =
                    Spread(modifications, loadModificationTemplate(options.template).value)
               /\ console' = Append(console, "template")
          ELSE /\ modifications' = modifications
               /\ console' = Append(console, "unknown-template")
  /\ bpc' = "cli"
  /\ UNCHANGED <<preview, given, options, inputDir, outputDir, files, tasks, taskOutcome,
                 settleOrder, results, outDir, summary, exitCode, reads>>
  /\ UNCHANGED exceptBatchVars

\* if (Object.keys(modifications).length === 0) { ... build from the flags ... }
BuildModifications ==
  /\ bpc = "cli"
  /\ modifications' = IF NoConfigOrTemplate(modifications)
                      THEN BuildFromCliArgs(options)
                      ELSE modifications
  /\ bpc' = "preview"
  /\ UNCHANGED <<preview, given, options, inputDir, outputDir, files, tasks, taskOutcome,
                 settleOrder, results, outDir, summary, exitCode, console, reads>>
  /\ UNCHANGED exceptBatchVars

\* previewModifications(modifications): the lines it prints
previewModifications(mods) ==
  (IF Len(mods.signatures) > 0
   THEN <<[line |-> "signatures", n |-> Len(mods.signatures)]>> \o
        [k \in 1..Len(SelectSeq(mods.signatures,
                                LAMBDA sig : Truthy(sig.imagePath) \/ Truthy(sig.text))) |->
           [line |-> "signature", n |-> k]]
   ELSE <<>>) \o
  (IF Len(mods.formData) > 0
   THEN <<[line |-> "form fields", n |-> Len(mods.formData)]>> \o
        [k \in 1..Len(mods.formData) |-> [line |-> "form field", n |-> k]]
   ELSE <<>>) \o
  (IF Len(mods.textInsertions) > 0
   THEN <<[line |-> "text insertions", n |-> Len(mods.textInsertions)]>> \o
        [k \in 1..Len(mods.textInsertions) |-> [line |-> "text insertion", n |-> k]]
   ELSE <<>>) \o
  (IF mods.allPages THEN <<[line |-> "all pages", n |-> 1]>> ELSE <<>>)

\* a variant that prints the preview and goes on to process the files
PreviewThenProcess ==
  /\ bpc = "preview"
  /\ IF options.previewOnly
     THEN /\ console' = Append(console, "preview")
          /\ preview' = previewModifications(modifications)
     ELSE UNCHANGED <<console, preview>>
  /\ bpc' = "process"
  /\ UNCHANGED <<given, options, inputDir, outputDir, files, modifications, tasks,
                 taskOutcome, settleOrder, results, outDir, summary, reads, exitCode>>
  /\ UNCHANGED exceptBatchVars

\* if (options.previewOnly) { previewModifications(modifications); return }
Preview ==
  /\ bpc = "preview"
  /\ IF options.previewOnly
     THEN /\ bpc' = "exit"
          /\ exitCode' = 0
          /\ console' = Append(console, "preview")
          /\ preview' = previewModifications(modifications)
     ELSE /\ bpc' = "process"
          /\ UNCHANGED <<exitCode, console, preview>>
  /\ UNCHANGED <<given, options, inputDir, outputDir, files, modifications, tasks,
                 taskOutcome, settleOrder, results, outDir, summary, reads>>
  /\ UNCHANGED exceptBatchVars

\* the per-file function is entered for file i and runs to its first await:
\* the file is read.  The sequential loop enters it after the file before has
\* ended; files.map enters it for every file in turn.
Dispatch(i) ==
  /\ bpc = "process"
  /\ tasks[i] = "pending"
  /\ \A j \in 1..(i - 1) : tasks[j] # "pending"
  /\ ~UseParallel => \A j \in 1..(i - 1) : tasks[j] = "settled"
  /\ tasks' = [tasks EXCEPT ![i] = "running"]
  /\ reads' = Append(reads, files[i].path)
  /\ UNCHANGED <<preview, given, options, inputDir, bpc, outputDir, files, modifications,
                 taskOutcome, settleOrder, results, outDir, summary, exitCode,
                 console>>
  /\ UNCHANGED exceptBatchVars

\* a variant that waits for one promise only
AnySettled(t) == \E i \in 1..Len(t) : t[i] = "settled"

\* Promise.all is fulfilled: every promise is
AllSettled(t) == \A i \in 1..Len(t) : t[i] = "settled"

\* a variant that yields the values in the order the promises were fulfilled
ValuesInSettleOrder(outcomes, order) ==
  [k \in 1..Len(outcomes) |-> IF k <= Len(order) THEN outcomes[order[k]] ELSE NoEntry]

\* the value of Promise.all(promises): the values in the order of promises
PromiseAll(outcomes, order) == outcomes

\* the processing of file i ends: the output is written (or not) and the
\* function returns its object; the sequential loop pushes it at once
SettleWith(i, o) ==
  /\ bpc = "process"
  /\ tasks[i] = "running"
  /\ UseParallel => \A j \in 1..Len(files) : tasks[j] # "pending"
  /\   /\ outDir' = IF o.written
                    THEN [outDir EXCEPT ![files[i].basename] =
                            [exists |-> TRUE, from |-> files[i].path, ops |-> o.ops]]
                    ELSE outDir
       /\ tasks' = [tasks EXCEPT ![i] = "settled"]
       /\ settleOrder' = Append(settleOrder, i)
       /\ IF o.threw
          THEN \* the exception leaves the loop, or rejects Promise.all
               /\ OuterCatch
               /\ UNCHANGED <<taskOutcome, results>>
          ELSE /\ taskOutcome' = [taskOutcome EXCEPT ![i] = o.entry]
               /\ results' = IF UseParallel THEN results ELSE Append(results, o.entry)
               /\ console' = IF UseParallel THEN console
                             ELSE Append(console, o.entry.status)
               /\ bpc' = IF ~UseParallel /\ i = Len(files) THEN "summary" ELSE bpc
               /\ exitCode' = exitCode
  /\ given' = [given EXCEPT ![i] = o.given]
  /\ modifications' = o.shared
  /\ UNCHANGED <<preview, options, inputDir, outputDir, files, summary, reads>>
  /\ UNCHANGED exceptBatchVars

Settle(i) == SettleWith(i, ProcessFile(files[i], options, modifications))

\* results.push(...await Promise.all(promises))
Collect ==
  /\ bpc = "process"
  /\ UseParallel
  /\ AllSettled(tasks)
  /\ results' = results \o PromiseAll(taskOutcome, settleOrder)
  /\ bpc' = "summary"
  /\ console' = Append(console, "parallel-complete")
  /\ UNCHANGED <<preview, given, options, inputDir, outputDir, files, modifications, tasks,
                 taskOutcome, settleOrder, outDir, summary, exitCode, reads>>
  /\ UNCHANGED exceptBatchVars

\* a variant whose totals count every outcome as a success
PrintSummaryOfAll ==
  /\ bpc = "summary"
  /\ summary' = [printed |-> TRUE,
                 successful |-> Len(results),
                 failed |-> 0,
                 totalModifications |->
                   SumSeq([k \in 1..Len(results) |-> results[k].modifications])]
  /\ console' = Append(console, "summary")
  /\ bpc' = "exit"
  /\ exitCode' = 0
  /\ UNCHANGED <<preview, given, options, inputDir, outputDir, files, modifications, tasks,
                 taskOutcome, settleOrder, results, outDir, reads>>
  /\ UNCHANGED exceptBatchVars

\* the totals are computed from results and printed; the action returns
PrintSummary ==
  /\ bpc = "summary"
  /\ LET ok == SelectSeq(results, LAMBDA r : r.status = "success") IN
       summary' = [printed |-> TRUE,
                   successful |-> Len(ok),
                   failed |-> Len(results) - Len(ok),
                   totalModifications |->
                     SumSeq([k \in 1..Len(ok) |-> ok[k].modifications])]
  /\ console' = Append(console, "summary")
  /\ bpc' = "exit"
  /\ exitCode' = 0
  /\ UNCHANGED <<preview, given, options, inputDir, outputDir, files, modifications, tasks,
                 taskOutcome, settleOrder, results, outDir, reads>>
  /\ UNCHANGED exceptBatchVars

NextBatch ==
  \/ CreateOutputDir
  \/ FindFiles
  \/ LoadConfig
  \/ LoadTemplate
  \/ BuildModifications
  \/ Preview
  \/ \E i \in 1..Len(files) : Dispatch(i)
  \/ \E i \in 1..Len(files) : Settle(i)
  \/ Collect
  \/ PrintSummary

(***************************************************************************)
(* PdfParser.parsePageRange.  A string is the sequence of its characters.  *)
(***************************************************************************)
Digits == <<"0", "1", "2", "3", "4", "5", "6", "7", "8", "9">>

IsDigit(c) == \E d \in 1..Len(Digits) : Digits[d] = c

DigitValue(c) == (CHOOSE d \in 1..Len(Digits) : Digits[d] = c) - 1

\* str.includes(c)
Includes(str, c) == \E k \in 1..Len(str) : str[k] = c

\* str.split(sep): the pieces between the separators, empty pieces included
RECURSIVE Split(_, _)
Split(str, sep) ==
  IF ~Includes(str, sep) THEN <<str>>
  ELSE LET k == CHOOSE j \in 1..Len(str) :
                  str[j] = sep /\ \A h \in 1..(j - 1) : str[h] # sep
       IN  <<SubSeq(str, 1, k - 1)>> \o Split(SubSeq(str, k + 1, Len(str)), sep)

\* str.trim()
RECURSIVE Trim(_)
Trim(str) ==
  IF str = <<>> THEN str
  ELSE IF Head(str) = " " THEN Trim(Tail(str))
  ELSE IF str[Len(str)] = " " THEN Trim(SubSeq(str, 1, Len(str) - 1))
  ELSE str

\* the value of the leading digits of str, after the value acc of those before
RECURSIVE LeadingDigits(_, _)
LeadingDigits(str, acc) ==
  IF str = <<>> \/ ~IsDigit(Head(str)) THEN acc
  ELSE LeadingDigits(Tail(str), 10 * acc + DigitValue(Head(str)))

\* parseInt(str): leading blanks are skipped, then an optional sign and the
\* leading digits are read; NaN when there is no digit
parseInt(str) ==
  LET t == Trim(str)
      signed == t # <<>> /\ Head(t) \in {"-", "+"}
      body == IF signed THEN Tail(t) ELSE t
  IN  IF body = <<>> \/ ~IsDigit(Head(body)) THEN NAN
      ELSE IF signed /\ Head(t) = "-" THEN Num(0 - LeadingDigits(body, 0))
      ELSE Num(LeadingDigits(body, 0))

\* Math.min(end, totalPages): NaN when end is
MathMin(end, total) ==
  IF end.t # "number" THEN NAN
  ELSE IF end.v < total THEN end ELSE Num(total)

\* if (!list.includes(i)) list.push(i)
PushNew(list, i) ==
  IF \E k \in 1..Len(list) : list[k] = i THEN list ELSE Append(list, i)

\* for (let i = start; i <= limit; i++) if (!list.includes(i)) list.push(i)
\* a comparison with NaN is false, so the loop body is never entered
RECURSIVE PushRange(_, _, _)
PushRange(list, i, limit) ==
  IF i.t # "number" \/ limit.t # "number" \/ i.v > limit.v THEN list
  ELSE PushRange(PushNew(list, i.v), Num(i.v + 1), limit)

\* pageNum >= 1 && pageNum <= totalPages
BarePageInBounds(pageNum, total) ==
  pageNum.t = "number" /\ pageNum.v >= 1 /\ pageNum.v <= total

\* the body of the loop over the parts, for one part
ParsePart(list, part, total) ==
  IF Includes(part, "-")
  THEN PushRange(list, parseInt(Trim(Split(part, "-")[1])),
                 MathMin(parseInt(Trim(Split(part, "-")[2])), total))
  ELSE IF BarePageInBounds(parseInt(Trim(part)), total)
       THEN PushNew(list, parseInt(Trim(part)).v)
       ELSE list

\* the loop over the parts
RECURSIVE ParseParts(_, _, _)
ParseParts(list, parts, total) ==
  IF parts = <<>> THEN list
  ELSE ParseParts(ParsePart(list, Head(parts), total), Tail(parts), total)

\* pages.sort((a, b) => a - b)
SortAscending(list) == SortSeq(list, LAMBDA a, b : a < b)

parsePageRange(str, total) ==
  SortAscending(ParseParts(<<>>, Split(str, ","), total))

\* the characters the range strings are made of
RangeAlphabet == {"0", "1", "2", "3", "5", ",", "-", " ", "a"}

\* longer range strings, with the page counts they are parsed against
RangeSamples ==
  { <<"5", "-", "3", ",", "2">>,
    <<"1", ",", "3", ",", "5", "-", "7", ",", "1", "0", "0">>,
    <<"1", "-", "3", ",", "2">>,
    <<"3", "-", "5", ",", "1", "-", "4">>,
    <<" ", "2", " ", "-", " ", "3", " ">>,
    <<"0", "-", "3", ",", "5">> }

SampleTotals == {6, 10}

InitRange ==
  /\ \/ /\ range \in SeqsUpTo(RangeAlphabet, MaxRangeLen)
        /\ totalPages \in 0..MaxTotalPages
     \/ /\ range \in RangeSamples
        /\ totalPages \in (0..MaxTotalPages) \cup SampleTotals
  /\ rpc = "call"
  /\ pages = <<>>
  \* no modifyPdf call and no batch is running
  /\ request = [formData |-> <<>>, signatures |-> <<>>, textInsertions |-> <<>>,
                imageInsertions |-> <<>>]
  /\ source = [opened |-> FALSE, pageCount |-> 0]
  /\ pc = "done"
  /\ idx = 0
  /\ counts = ZeroCounts
  /\ modificationsCount = 0
  /\ docOps = <<>>
  /\ attempted = <<>>
  /\ persist = "none"
  /\ outFile = [written |-> FALSE, ops |-> <<>>]
  /\ result = NoResult
  /\ options = [pattern |-> "*.pdf"]
  /\ inputDir = <<>>
  /\ bpc = "exit"
  /\ outputDir = "missing"
  /\ files = <<>>
  /\ modifications = <<>>
  /\ tasks = <<>>
  /\ taskOutcome = <<>>
  /\ settleOrder = <<>>
  /\ results = <<>>
  /\ outDir = <<>>
  /\ summary = <<>>
  /\ exitCode = 0
  /\ console = <<>>
  /\ reads = <<>>
  /\ given = <<>>
  /\ preview = <<>>
  \* no parser and no generator is in use
  /\ config = <<>>
  /\ pdfFile = <<>>
  /\ epc = "done"
  /\ op = "none"
  /\ argument = <<>>
  /\ validation = <<>>
  /\ bytesRead = FALSE
  /\ parseResult = <<>>
  /\ output = <<>>
  /\ engineCache = <<>>
  /\ installed = {}
  /\ calls = <<>>
  /\ probes = <<>>
  /\ answers = <<>>

\* const pages = this.parsePageRange(pageRange, result.data.totalPages)
ParsePageRange ==
  /\ rpc = "call"
  /\ pages' = parsePageRange(range, totalPages)
  /\ rpc' = "done"
  /\ UNCHANGED <<range, totalPages>>
  /\ UNCHANGED exceptRangeVars

NextRange == ParsePageRange

(***************************************************************************)
(* PdfParser: the constructor, updateConfig, parseFile, extractPages and   *)
(* searchText, with SafetyManager.validateFile.  The file system and the   *)
(* pdf-parse library are the environment: a file is what they make of it.  *)
(***************************************************************************)
\* { ...a, ...b } on configurations: a key of b replaces the key of a, also
\* when its value is undefined
SpreadConfig(a, b) ==
  [k \in DOMAIN a \cup DOMAIN b |-> IF k \in DOMAIN b THEN b[k] ELSE a[k]]

\* constructor(config: PdfConfig = {})
PdfParserConfig(cfg) ==
  SpreadConfig([includePageInfo |-> "false", safetyChecks |-> "true"], cfg)

\* updateConfig(newConfig)
updateConfig(cur, newConfig) == SpreadConfig(cur, newConfig)

\* if (this.config.safetyChecks): the validator is consulted
ChecksSafety(cfg) == cfg.safetyChecks = "true"

\* if (this.config.includePageInfo)
IncludesPageInfo(cfg) == cfg.includePageInfo = "true"

\* the configuration the extract command builds: includePageInfo is
\* options.pageInfo, true with --page-info and undefined without
ExtractCommandConfig(pageInfo) == [includePageInfo |-> pageInfo]

\* the arguments a parser is constructed with, and those of updateConfig
ConstructorArgs ==
  {<<>>} \cup {ExtractCommandConfig(pi) : pi \in {Undef, "true"}}
         \cup {[safetyChecks |-> sc] : sc \in {"true", "false"}}
         \cup {[includePageInfo |-> "true", safetyChecks |-> "false"]}

UpdateArgs ==
  {[safetyChecks |-> "false"], [safetyChecks |-> "true"],
   [includePageInfo |-> "true"], [includePageInfo |-> "false"]}

\* the text of page k of a document: one letter per page, len times
PageText(k, len) == [i \in 1..len |-> <<"a", "b", "c", "d">>[k]]

\* a file: what the file system says of it, and what pdf-parse returns for it
PdfFile(exists, readable, ext, tooLarge, header, suspicious, parses, lens, sep) ==
  [exists |-> exists, readable |-> readable, ext |-> ext, tooLarge |-> tooLarge,
   header |-> header, suspicious |-> suspicious, parses |-> parses,
   pageTexts |-> [k \in 1..Len(lens) |-> PageText(k, lens[k])],
   separator |-> sep]

\* the lengths of the pages of a document
Contents == UNION {[1..n -> {1, 3}] : n \in 1..MaxPages}

\* the safe documents, with a form feed or a line feed between two pages in
\* the text of pdf-parse; a missing file; an unreadable one that is too large;
\* a text file; a document that is too large; a file that is no PDF; a PDF
\* with a script in it; a text file with a script in it that pdf-parse
\* accepts; a PDF pdf-parse fails on
PdfFiles ==
  {PdfFile(TRUE, TRUE, ".pdf", FALSE, TRUE, FALSE, TRUE, lens, sep) :
     lens \in Contents, sep \in {"\f", "\n"}}
  \cup { PdfFile(FALSE, FALSE, ".pdf", FALSE, FALSE, FALSE, FALSE, <<1>>, "\f"),
         PdfFile(TRUE, FALSE, ".pdf", TRUE, FALSE, FALSE, FALSE, <<1>>, "\f"),
         PdfFile(TRUE, TRUE, ".txt", FALSE, FALSE, FALSE, FALSE, <<1>>, "\f"),
         PdfFile(TRUE, TRUE, ".pdf", TRUE, TRUE, FALSE, TRUE, <<1, 3>>, "\f"),
         PdfFile(TRUE, TRUE, ".pdf", FALSE, FALSE, FALSE, FALSE, <<1>>, "\f"),
         PdfFile(TRUE, TRUE, ".pdf", FALSE, TRUE, TRUE, TRUE, <<3, 1>>, "\f"),
         PdfFile(TRUE, TRUE, ".txt", FALSE, TRUE, TRUE, TRUE, <<1>>, "\n"),
         PdfFile(TRUE, TRUE, ".pdf", FALSE, TRUE, FALSE, FALSE, <<1>>, "\f") }

\* SafetyManager.validateFile in extraction mode
validateFile(f) ==
  IF ~f.exists
  THEN [isSafe |-> FALSE, issues |-> <<"File does not exist">>]
  ELSE LET early ==
             (IF f.ext # ".pdf" THEN <<"Unsupported file extension">> ELSE <<>>)
             \o (IF f.tooLarge THEN <<"File too large">> ELSE <<>>)
           issues ==
             early
             \o (IF ~f.header THEN <<"Invalid PDF file format">> ELSE <<>>)
             \o (IF f.suspicious THEN <<"Potential security risk detected">>
                 ELSE <<>>)
       IN  IF ~f.readable
           THEN [isSafe |-> FALSE, issues |-> early \o <<"Validation error">>]
           ELSE [isSafe |-> issues = <<>>, issues |-> issues]

\* list.join(sep), the pieces and sep being strings
RECURSIVE Join(_, _)
Join(list, sep) ==
  IF list = <<>> THEN <<>>
  ELSE IF Len(list) = 1 THEN list[1]
  ELSE list[1] \o sep \o Join(Tail(list), sep)

\* pdfData.text of pdf-parse: the pages' texts with the separator between them
PdfText(f) == Join(f.pageTexts, <<f.separator>>)

\* avgLength is Math.ceil(text.length / pageCount), and text.slice(start, end)
\* is the characters start + 1 .. end of the sequence
splitTextIntoPages(text, pageCount) ==
  IF pageCount = 1 THEN <<text>>
  ELSE LET formFeedPages == Split(text, "\f")
           avgLength == (Len(text) + pageCount - 1) \div pageCount
       IN  IF Len(formFeedPages) = pageCount THEN formFeedPages
           ELSE [i \in 1..pageCount |->
                   SubSeq(text, (i - 1) * avgLength + 1,
                          IF i * avgLength <= Len(text) THEN i * avgLength
                          ELSE Len(text))]

extractPageInfo(text, numpages) ==
  LET textPages == splitTextIntoPages(text, numpages)
  IN  [i \in 1..Len(textPages) |-> [pageNumber |-> i, content |-> textPages[i]]]

\* the ProcessingResult parseFile starts from, and the ones it returns
NoData == [text |-> <<>>, totalPages |-> 0, hasPages |-> FALSE, pages |-> <<>>]

ParseResult(success, errors, data) ==
  [success |-> success, errors |-> errors, data |-> data]

\* parsedData of parseFile, data.pages being set only with includePageInfo
ParsedData(f, cfg) ==
  [text |-> PdfText(f), totalPages |-> Len(f.pageTexts),
   hasPages |-> IncludesPageInfo(cfg),
   pages |-> IF IncludesPageInfo(cfg)
             THEN extractPageInfo(PdfText(f), Len(f.pageTexts)) ELSE <<>>]

\* pages.find(p => p.pageNumber === pageNum), the misses filtered out
RECURSIVE SelectPages(_, _)
SelectPages(nums, infos) ==
  IF nums = <<>> THEN <<>>
  ELSE (IF \E i \in 1..Len(infos) : infos[i].pageNumber = Head(nums)
        THEN <<infos[CHOOSE i \in 1..Len(infos) :
                       infos[i].pageNumber = Head(nums)].content>>
        ELSE <<>>)
       \o SelectPages(Tail(nums), infos)

Threw(message) == [kind |-> "threw", value |-> message]

\* extractPages after  const result = await this.parseFile(filePath)
extractPages(res, str) ==
  IF ~res.success THEN Threw("Failed to parse PDF")
  ELSE IF ~res.data.hasPages
  THEN [kind |-> "text", value |-> res.data.text]
  ELSE [kind |-> "text",
        value |-> Join(SelectPages(parsePageRange(str, res.data.totalPages),
                                   res.data.pages),
                       <<"\n", "\n">>)]

\* the places of a one-character query in a text, counted from 0
Matches(text, query) == {i \in 0..(Len(text) - 1) : text[i + 1] = query}

\* searchText after  const result = await this.parseFile(filePath): the
\* matches with their page (0 where the code sets none) and index
searchText(res, query) ==
  IF ~res.success THEN Threw("Failed to parse PDF")
  ELSE IF res.data.hasPages
  THEN [kind |-> "matches",
        value |-> UNION {{[page |-> res.data.pages[p].pageNumber, index |-> i] :
                            i \in Matches(res.data.pages[p].content, query)} :
                         p \in 1..Len(res.data.pages)}]
  ELSE [kind |-> "matches",
        value |-> {[page |-> 0, index |-> i] :
                     i \in Matches(res.data.text, query)}]

\* the page ranges extractPages is called with
PageRanges ==
  { <<"1">>, <<"2">>, <<"1", "-", "2">>, <<"2", ",", "1">>, <<"3">>,
    <<"2", "-">> }

InitExtract ==
  /\ config \in {PdfParserConfig(cfg) : cfg \in ConstructorArgs}
  /\ pdfFile \in PdfFiles
  /\ epc = "new"
  /\ op = "none"
  /\ argument = <<>>
  /\ validation = <<>>
  /\ bytesRead = FALSE
  /\ parseResult = ParseResult(FALSE, <<>>, NoData)
  /\ output = [kind |-> "none", value |-> <<>>]
  \* nothing else is running
  /\ request = [formData |-> <<>>, signatures |-> <<>>, textInsertions |-> <<>>,
                imageInsertions |-> <<>>]
  /\ source = [opened |-> FALSE, pageCount |-> 0]
  /\ pc = "done"
  /\ idx = 0
  /\ counts = ZeroCounts
  /\ modificationsCount = 0
  /\ docOps = <<>>
  /\ attempted = <<>>
  /\ persist = "none"
  /\ outFile = [written |-> FALSE, ops |-> <<>>]
  /\ result = NoResult
  /\ options = [pattern |-> "*.pdf"]
  /\ inputDir = <<>>
  /\ bpc = "exit"
  /\ outputDir = "missing"
  /\ files = <<>>
  /\ modifications = <<>>
  /\ tasks = <<>>
  /\ taskOutcome = <<>>
  /\ settleOrder = <<>>
  /\ results = <<>>
  /\ outDir = <<>>
  /\ summary = <<>>
  /\ exitCode = 0
  /\ console = <<>>
  /\ reads = <<>>
  /\ given = <<>>
  /\ preview = <<>>
  /\ range = <<>>
  /\ totalPages = 0
  /\ rpc = "done"
  /\ pages = <<>>
  /\ engineCache = <<>>
  /\ installed = {}
  /\ calls = <<>>
  /\ probes = <<>>
  /\ answers = <<>>

\* parser.updateConfig(newConfig), before the call
UpdateConfig ==
  /\ epc = "new"
  /\ \E newConfig \in UpdateArgs : config' = updateConfig(config, newConfig)
  /\ epc' = "ready"
  /\ UNCHANGED <<pdfFile, op, argument, validation, bytesRead, parseResult,
                 output>>
  /\ UNCHANGED exceptExtractVars

\* parser.parseFile(file), parser.extractPages(file, range) or
\* parser.searchText(file, query) is called; each starts with parseFile
Call ==
  /\ epc \in {"new", "ready"}
  /\ \/ op' = "parseFile" /\ argument' = <<>>
     \/ op' = "extractPages" /\ argument' \in PageRanges
     \/ op' = "searchText" /\ argument' \in {<<"a">>, <<"b">>}
  /\ epc' = "parseFile"
  /\ UNCHANGED <<config, pdfFile, validation, bytesRead, parseResult, output>>
  /\ UNCHANGED exceptExtractVars

\* parseFile: the safety validation
Validate ==
  /\ epc = "parseFile"
  /\ IF ChecksSafety(config)
     THEN /\ validation' = <<validateFile(pdfFile)>>
          /\ IF ~validateFile(pdfFile).isSafe
             THEN /\ parseResult' =
                       ParseResult(FALSE, validateFile(pdfFile).issues, NoData)
                  /\ epc' = "return"
             ELSE /\ epc' = "read"
                  /\ UNCHANGED parseResult
     ELSE /\ epc' = "read"
          /\ UNCHANGED <<validation, parseResult>>
  /\ UNCHANGED <<config, pdfFile, op, argument, bytesRead, output>>
  /\ UNCHANGED exceptExtractVars

\* parseFile: fs.readFileSync(filePath), an exception going to the catch
ReadFile ==
  /\ epc = "read"
  /\ IF pdfFile.exists /\ pdfFile.readable
     THEN /\ bytesRead' = TRUE
          /\ epc' = "parse"
          /\ UNCHANGED parseResult
     ELSE /\ parseResult' = ParseResult(FALSE, <<"Parsing failed">>, NoData)
          /\ epc' = "return"
          /\ UNCHANGED bytesRead
  /\ UNCHANGED <<config, pdfFile, op, argument, validation, output>>
  /\ UNCHANGED exceptExtractVars

\* parseFile: pdfParse(pdfBuffer, options) and the result built from it
Parse ==
  /\ epc = "parse"
  /\ parseResult' = IF pdfFile.parses
                    THEN ParseResult(TRUE, <<>>, ParsedData(pdfFile, config))
                    ELSE ParseResult(FALSE, <<"Parsing failed">>, NoData)
  /\ epc' = "return"
  /\ UNCHANGED <<config, pdfFile, op, argument, validation, bytesRead, output>>
  /\ UNCHANGED exceptExtractVars

\* parseFile returns, and the method that called it finishes
Return ==
  /\ epc = "return"
  /\ output' = CASE op = "parseFile" -> [kind |-> "result", value |-> parseResult]
                 [] op = "extractPages" -> extractPages(parseResult, argument)
                 [] op = "searchText" -> searchText(parseResult, argument[1])
  /\ epc' = "done"
  /\ UNCHANGED <<config, pdfFile, op, argument, validation, bytesRead,
                 parseResult>>
  /\ UNCHANGED exceptExtractVars

NextExtract ==
  \/ UpdateConfig
  \/ Call
  \/ Validate
  \/ ReadFile
  \/ Parse
  \/ Return

(***************************************************************************)
(* PdfGenerator: the engine cache.  A call of generatePdf or getEngineInfo *)
(* asks isEngineAvailable for one engine after the other; each await of    *)
(* `which` suspends the call, and the other calls run meanwhile.           *)
(***************************************************************************)
Engines == {"xelatex", "pdflatex", "lualatex", "typst"}

\* templateInfo.engines || [...], the fallback list, the list of getEngineInfo
PreferredEngines == <<"xelatex", "pdflatex", "typst">>

FallbackEngines == <<"xelatex", "pdflatex", "lualatex", "typst">>

InfoEngines == <<"xelatex", "pdflatex", "lualatex", "typst">>

\* the engines selectEngine asks for, in order, until one is available
selectEngine(engine) ==
  (IF engine # "auto" THEN <<engine>> ELSE <<>>) \o PreferredEngines \o FallbackEngines

\* a call: the engines it still asks for, whether it stops at the first one
\* that is available, where it is ("ask", "which", "done"), what it selected
GeneratorCall(method, todo, untilAvailable) ==
  [method |-> method, todo |-> todo, untilAvailable |-> untilAvailable,
   at |-> "ask", selected |-> "null"]

GeneratorCalls ==
  {GeneratorCall("getEngineInfo", InfoEngines, FALSE)} \cup
  {GeneratorCall("generatePdf", selectEngine(engine), TRUE) :
     engine \in {"auto", "typst", "lualatex"}}

\* what `which` finds on the machine
Installations == {{}, {"typst"}, {"pdflatex", "lualatex"}, Engines}

\* the call after isEngineAvailable returned available for the head of todo
AfterAnswer(call, available) ==
  IF available /\ call.untilAvailable
  THEN [call EXCEPT !.at = "done", !.selected = Head(call.todo), !.todo = <<>>]
  ELSE [call EXCEPT !.todo = Tail(call.todo),
                    !.at = IF Len(call.todo) = 1 THEN "done" ELSE "ask"]

InitEngine ==
  /\ engineCache = [e \in Engines |-> "none"]
  /\ installed \in Installations
  /\ calls \in UNION {[1..n -> GeneratorCalls] : n \in 1..MaxCalls}
  /\ probes = [e \in Engines |-> 0]
  /\ answers = [e \in Engines |-> {}]
  \* nothing else is running
  /\ request = [formData |-> <<>>, signatures |-> <<>>, textInsertions |-> <<>>,
                imageInsertions |-> <<>>]
  /\ source = [opened |-> FALSE, pageCount |-> 0]
  /\ pc = "done"
  /\ idx = 0
  /\ counts = ZeroCounts
  /\ modificationsCount = 0
  /\ docOps = <<>>
  /\ attempted = <<>>
  /\ persist = "none"
  /\ outFile = [written |-> FALSE, ops |-> <<>>]
  /\ result = NoResult
  /\ options = [pattern |-> "*.pdf"]
  /\ inputDir = <<>>
  /\ bpc = "exit"
  /\ outputDir = "missing"
  /\ files = <<>>
  /\ modifications = <<>>
  /\ tasks = <<>>
  /\ taskOutcome = <<>>
  /\ settleOrder = <<>>
  /\ results = <<>>
  /\ outDir = <<>>
  /\ summary = <<>>
  /\ exitCode = 0
  /\ console = <<>>
  /\ reads = <<>>
  /\ given = <<>>
  /\ preview = <<>>
  /\ range = <<>>
  /\ totalPages = 0
  /\ rpc = "done"
  /\ pages = <<>>
  /\ config = <<>>
  /\ pdfFile = <<>>
  /\ epc = "done"
  /\ op = "none"
  /\ argument = <<>>
  /\ validation = <<>>
  /\ bytesRead = FALSE
  /\ parseResult = <<>>
  /\ output = <<>>

\* isEngineAvailable(engine) up to its await: the cached value is returned, or
\* `which` is started and the call is suspended
IsEngineAvailable(c) ==
  /\ calls[c].at = "ask"
  /\ LET engine == Head(calls[c].todo) IN
       IF engineCache[engine] # "none"   \* engine in this.engineCache
       THEN /\ calls' = [calls EXCEPT ![c] = AfterAnswer(@, engineCache[engine] = "yes")]
            /\ answers' = [answers EXCEPT ![engine] = @ \cup {engineCache[engine]}]
            /\ UNCHANGED probes
       ELSE /\ calls' = [calls EXCEPT ![c].at = "which"]
            /\ probes' = [probes EXCEPT ![engine] = @ + 1]
            /\ UNCHANGED answers
  /\ UNCHANGED <<engineCache, installed>>
  /\ UNCHANGED exceptEngineVars

\* `which` has exited: the answer is stored in the cache and returned
WhichExits(c) ==
  /\ calls[c].at = "which"
  /\ LET engine == Head(calls[c].todo)
         answer == IF engine \in installed THEN "yes" ELSE "no"
     IN  /\ engineCache' = [engineCache EXCEPT ![engine] = answer]
         /\ answers' = [answers EXCEPT ![engine] = @ \cup {answer}]
         /\ calls' = [calls EXCEPT ![c] = AfterAnswer(@, answer = "yes")]
  /\ UNCHANGED <<installed, probes>>
  /\ UNCHANGED exceptEngineVars

NextEngine ==
  \/ \E c \in 1..Len(calls) : IsEngineAvailable(c)
  \/ \E c \in 1..Len(calls) : WhichExits(c)

(***************************************************************************)
(* The specifications.                                                     *)
(***************************************************************************)
\* one call of modifyPdf, for every request
SpecModify == InitModify /\ [][NextModify]_vars

\* one run of batch-modify, for the command lines and directories of InitBatch
SpecBatch == InitBatch /\ [][NextBatch]_vars

\* one call of parsePageRange, for every range string and page count of InitRange
SpecRange == InitRange /\ [][NextRange]_vars

\* one call on one PdfParser
SpecExtract == InitExtract /\ [][NextExtract]_vars

\* the calls that overlap on one PdfGenerator
SpecEngine == InitEngine /\ [][NextEngine]_vars

(***************************************************************************)
(* Properties of modifyPdf.                                                *)
(***************************************************************************)
\* the edits of a request in the order form fields, signatures, text, images,
\* each list in its own order
CanonicalOrder(req) ==
  [i \in 1..Len(req.formData) |-> <<"form", i>>] \o
  [i \in 1..Len(req.signatures) |-> <<"signature", i>>] \o
  [i \in 1..Len(req.textInsertions) |-> <<"text", i>>] \o
  [i \in 1..Len(req.imageInsertions) |-> <<"image", i>>]

\* the edits of a kind that changed the document
Changed(kind) == {i \in 1..Len(docOps) : docOps[i].kind = kind}

\* C1: the edits are attempted in the order form fields, signatures, text, images
\* and in list order within a kind (the attempts so far are always a prefix of
\* that order), and the save is reached, and the output written, only after
\* every edit of all four kinds has been attempted.
C1_FixedKindOrder ==
  /\ Len(attempted) <= TotalEdits(request)
  /\ attempted = SubSeq(CanonicalOrder(request), 1, Len(attempted))
  /\ (pc = "save" \/ persist # "none" \/ outFile.written)
       => attempted = CanonicalOrder(request)

\* C1 witness: a saved document with one form edit then two text edits
C1_Witness ==
  /\ outFile.written
  /\ attempted = <<<<"form", 1>>, <<"text", 1>>, <<"text", 2>>>>

\* C2: whatever edits fail softly, when the source opens and the save does not
\* fail every edit is attempted, the document is saved and success is true;
\* a request whose only edit fills an absent field gives success with
\* formsFilled = 0.
C2_SoftFailuresIsolated ==
  (pc = "done" /\ source.opened /\ persist # "failed") =>
     /\ attempted = CanonicalOrder(request)
     /\ outFile.written
     /\ result.returned /\ result.success
     /\ (/\ request.formData = <<[fieldName |-> "missing", fieldValue |-> "x"]>>
         /\ TotalEdits(request) = 1) => result.formsFilled = 0

\* C2 witness: two edits failed softly (an absent field, an absent page), a later
\* image edit succeeded, and the call returned success
C2_Witness ==
  /\ pc = "done" /\ result.success
  /\ request.formData = <<[fieldName |-> "missing", fieldValue |-> "x"]>>
  /\ request.textInsertions =
       <<TextInsertion("DRAFT", Point(100, 100), Num(MaxPages + 7), UNDEFINED)>>
  /\ Len(request.imageInsertions) = 1
  /\ Len(docOps) = 1 /\ docOps[1].kind = "image"

ModifyPdfAgrees ==
  pc = "done" =>
    LET o == modifyPdf(request, source, persist = "ok", "out.pdf") IN
      /\ result = o.result
      /\ outFile = [written |-> o.written, ops |-> o.ops]

(***************************************************************************)
(* Properties of batch-modify.                                             *)
(***************************************************************************)
\* the run has started to process files
Processing == reads # <<>>

\* the edit set is final: config, template and flags have been looked at
RequestBuilt == bpc \in {"preview", "process", "summary"}

\* the file cannot be opened, or its output cannot be saved
FileItselfFails(f) == ~f.doc.opened \/ ~f.persists

\* the number of edits of an edit set
EditCount(mods) ==
  Len(mods.signatures) + Len(mods.formData) + Len(mods.textInsertions)

\* the elements of a list
Range(seq) == {seq[i] : i \in 1..Len(seq)}

KnownTemplate ==
  Truthy(options.template) /\ loadModificationTemplate(options.template).found

ParsedConfig ==
  Truthy(options.config) /\ ReadConfig(options.config).parses

\* what the sequential loop leaves in outputDir after the files from i on
RECURSIVE SequentialOutDir(_, _)
SequentialOutDir(i, dir) ==
  IF i > Len(files) THEN dir
  ELSE SequentialOutDir(i + 1,
         IF ProcessFile(files[i], options, modifications).written
         THEN [dir EXCEPT ![files[i].basename] =
                 [exists |-> TRUE, from |-> files[i].path,
                  ops |-> ProcessFile(files[i], options, modifications).ops]]
         ELSE dir)

\* the edit set a command line resolves to: config, then template, then flags
ResolvedEditSet(opts) ==
  LET c == IF Truthy(opts.config) THEN ReadConfig(opts.config).value ELSE EmptyObject
      t == IF Truthy(opts.template) /\ loadModificationTemplate(opts.template).found
           THEN Spread(c, loadModificationTemplate(opts.template).value)
           ELSE c
  IN  IF NoConfigOrTemplate(t) THEN BuildFromCliArgs(opts) ELSE t

\* the files whose processing has ended with a call of modifyPdf
Called == {i \in 1..Len(given) : given[i].called}

\* the all-pages branch is taken for the files of this run
AllPagesBranch == options.allPages /\ Len(modifications.textInsertions) > 0

\* --config names a file that cannot be parsed as JSON
MalformedConfig == Truthy(options.config) /\ ~ReadConfig(options.config).parses

\* no output document has been written
NothingWritten == \A b \in BaseNames : ~outDir[b].exists

\* --template names no built-in template
UnknownTemplate ==
  Truthy(options.template) /\ ~loadModificationTemplate(options.template).found

\* C5: once a batch has begun to process files it ends with exit code 0 and one
\* outcome per discovered file, every file was opened, and an outcome is
\* 'failed' only if its own file cannot be opened or saved, and 'success'
\* otherwise, whatever the other files do, under both strategies.
C5_PerDocumentIsolation ==
  (bpc = "exit" /\ Processing) =>
     /\ exitCode = 0
     /\ Len(results) = Len(files)
     /\ reads = [i \in 1..Len(files) |-> files[i].path]
     /\ \A i \in 1..Len(files) :
          /\ results[i].file = files[i].basename
          /\ results[i].status \in {"success", "failed"}
          /\ results[i].status = "failed" <=> FileItselfFails(files[i])

\* C5 witness: an all-pages batch of three files ended, the second file is
\* corrupt and failed, the first and the third succeeded
C5_Witness ==
  /\ bpc = "exit" /\ Len(results) = 3 /\ options.allPages
  /\ results[1].status = "success"
  /\ results[2].status = "failed" /\ ~files[2].doc.opened
  /\ results[3].status = "success"

\* C6: under both strategies results[i] is the outcome of the i-th discovered
\* file, whatever the order in which the files' processing ended.
C6_DiscoveryOrder ==
  (Processing /\ bpc \in {"summary", "exit"}) =>
     /\ Len(results) = Len(files)
     /\ \A i \in 1..Len(files) :
          results[i] = ProcessFile(files[i], options, modifications).entry

\* C6 witness: a parallel run of files with different outcomes whose processing
\* ended in another order than they were discovered
C6_Witness ==
  /\ bpc = "exit" /\ UseParallel /\ Len(results) = 3
  /\ settleOrder = <<3, 1, 2>>
  /\ results[1].status = "failed" /\ results[3].status = "success"

\* C7: a run ends with the results list and the output files the sequential
\* loop gives for the same files, edit set and library behaviour, under both
\* strategies.
C7_StrategyEquivalence ==
  (bpc = "exit" /\ Processing) =>
     /\ results = [i \in 1..Len(files) |->
                     ProcessFile(files[i], options, modifications).entry]
     /\ outDir = SequentialOutDir(1, [b \in BaseNames |-> NoFile])

\* the same, for runs in which no two discovered files have the same basename
StrategyEquivalenceOnDistinctNames ==
  (bpc = "exit" /\ Processing
     /\ \A i, j \in 1..Len(files) : files[i].basename = files[j].basename => i = j) =>
     /\ results = [i \in 1..Len(files) |->
                     ProcessFile(files[i], options, modifications).entry]
     /\ outDir = SequentialOutDir(1, [b \in BaseNames |-> NoFile])

\* C8: in parallel mode no file's processing ends before every file has been
\* dispatched, and the results list is filled and the summary printed only after
\* the processing of every file has ended.
C8_JoinAllBarrier ==
  UseParallel =>
     /\ (\E i \in 1..Len(tasks) : tasks[i] = "settled")
          => \A i \in 1..Len(tasks) : tasks[i] # "pending"
     /\ (results # <<>> \/ summary.printed \/ (Processing /\ bpc \in {"summary", "exit"}))
          => /\ \A i \in 1..Len(tasks) : tasks[i] = "settled"
             /\ Len(results) = Len(files)

\* C8 witness: a parallel run in which one file's processing has ended, another
\* is still running, and nothing has been collected
C8_Witness ==
  /\ UseParallel /\ bpc = "process"
  /\ Len(tasks) = 3 /\ tasks[2] = "settled" /\ tasks[1] = "running"
  /\ results = <<>>

C10_ConfigTemplateUnion ==
  (RequestBuilt /\ ParsedConfig /\ KnownTemplate) =>
     LET c == ReadConfig(options.config).value
         t == loadModificationTemplate(options.template).value
     IN  /\ Range(c.signatures) \cup Range(t.signatures) \subseteq
              Range(modifications.signatures)
         /\ Range(c.formData) \cup Range(t.formData) \subseteq
              Range(modifications.formData)
         /\ Range(c.textInsertions) \cup Range(t.textInsertions) \subseteq
              Range(modifications.textInsertions)

\* C11: the list an all-pages run gives modifyPdf for a file of n pages holds,
\* for every page index 0..n-1 and every base text edit, one copy at position
\* page * (number of base edits) + k, and the copy equals the base edit in every
\* field but pageNumber (text, position, fontSize, color, fontName).
C11_ExpansionExactAndFieldPreserving ==
  \A i \in Called :
    AllPagesBranch =>
      LET base == ResolvedEditSet(options).textInsertions
          n    == files[i].doc.pageCount
          all  == given[i].textInsertions
      IN  /\ Len(all) = n * Len(base)
          /\ \A pg \in 0..(n - 1) : \A k \in 1..Len(base) :
               all[pg * Len(base) + k] = [base[k] EXCEPT !.pageNumber = Num(pg)]

\* the same without color and fontName: the count, the page indices, and the
\* fields text, position and fontSize of every copy
ExpansionExactOnCopiedFields ==
  \A i \in Called :
    AllPagesBranch =>
      LET base == ResolvedEditSet(options).textInsertions
          n    == files[i].doc.pageCount
          all  == given[i].textInsertions
      IN  /\ Len(all) = n * Len(base)
          /\ \A pg \in 0..(n - 1) : \A k \in 1..Len(base) :
               /\ all[pg * Len(base) + k].pageNumber = Num(pg)
               /\ all[pg * Len(base) + k].text = base[k].text
               /\ all[pg * Len(base) + k].position = base[k].position
               /\ all[pg * Len(base) + k].fontSize = base[k].fontSize

\* C12: once the edit set is built it stays what the command line resolved to,
\* however many files have been expanded and in whatever order, and every file
\* of an all-pages run is given a list of its own of (its page count) x (number
\* of base text edits) edits, whatever the page counts of the other files.
C12_SharedEditSetUnchanged ==
  RequestBuilt =>
    /\ modifications = ResolvedEditSet(options)
    /\ \A i \in Called :
         Len(given[i].textInsertions) =
           IF options.allPages /\ Len(ResolvedEditSet(options).textInsertions) > 0
           THEN files[i].doc.pageCount * Len(ResolvedEditSet(options).textInsertions)
           ELSE Len(ResolvedEditSet(options).textInsertions)

\* C12 witness: a parallel all-pages run has ended in which a later file was
\* expanded before an earlier one, the two have different page counts, and each
\* got its own number of copies
C12_Witness ==
  /\ bpc = "exit" /\ UseParallel /\ AllPagesBranch
  /\ Len(files) >= 2 /\ Called = 1..Len(files)
  /\ settleOrder[1] = 2
  /\ files[1].doc.pageCount = 1 /\ files[2].doc.pageCount = MaxPages
  /\ Len(given[1].textInsertions) = Len(modifications.textInsertions)
  /\ Len(given[2].textInsertions) = MaxPages * Len(modifications.textInsertions)

\* C13: a run with --template confidential-watermark and no other edit option
\* ends with, for every document that was saved, as many text insertions applied
\* as the document has pages.
C13_WatermarkOnEveryPage ==
  (/\ bpc = "exit" /\ Processing
   /\ [options EXCEPT !.parallel = FALSE, !.pattern = "*.pdf"] =
        [DefaultOptions EXCEPT !.template = "confidential-watermark"]) =>
     \A i \in 1..Len(results) :
       results[i].status = "success" =>
         results[i].modifications = files[i].doc.pageCount

C17_ExitCodeAsymmetry ==
  (bpc = "exit" /\ Processing) =>
     /\ exitCode = 0
     /\ summary.printed
     /\ summary.failed = Cardinality({i \in 1..Len(files) : FileItselfFails(files[i])})
     /\ \A i \in 1..Len(files) :
          modifyAction(options, files[i]).called =>
            modifyAction(options, files[i]).exitCode =
              (IF FileItselfFails(files[i]) THEN 1 ELSE 0)

\* C17 witness: a batch of two files has ended with exit code 0 and both
\* outcomes failed, and modify with the same flags on the first file exits 1
C17_Witness ==
  /\ bpc = "exit" /\ exitCode = 0 /\ Len(results) = 2
  /\ results[1].status = "failed" /\ results[2].status = "failed"
  /\ summary.failed = 2
  /\ modifyAction(options, files[1]) = [called |-> TRUE, exitCode |-> 1]

\* C18: any two distinct discovered files have distinct output paths (the
\* output path of a file is outputDir joined with its basename), so no two
\* per-file operations that run at the same time write the same output file.
C18_NoWriteContention ==
  \A i, j \in 1..Len(files) :
    (i # j /\ files[i].path # files[j].path) =>
       files[i].basename # files[j].basename

(***************************************************************************)
(* Properties of parsePageRange.                                           *)
(***************************************************************************)
\* the parts of the range string, and the numbers of a part with a '-'
RangeParts == Split(range, ",")

StartOf(part) == parseInt(Trim(Split(part, "-")[1]))

EndOf(part) == parseInt(Trim(Split(part, "-")[2]))

\* the pages a part names: a..min(b, totalPages) for 'a-b', n for a bare n
NamedBy(part) ==
  IF Includes(part, "-")
  THEN IF StartOf(part).t = "number" /\ EndOf(part).t = "number"
       THEN {i \in StartOf(part).v..EndOf(part).v : i <= totalPages}
       ELSE {}
  ELSE IF parseInt(Trim(part)).t = "number" THEN {parseInt(Trim(part)).v} ELSE {}

\* the pages named by some part
Named == UNION {NamedBy(RangeParts[k]) : k \in 1..Len(RangeParts)}

\* the list is strictly ascending
StrictlyAscending(list) == \A k \in 1..(Len(list) - 1) : list[k] < list[k + 1]

\* C19: the list parsePageRange returns is strictly ascending (so without a
\* duplicate) and holds no value outside 1..totalPages, for every range string
\* and every totalPages >= 0.
C19_AscendingAndInBounds ==
  rpc = "done" =>
     /\ StrictlyAscending(pages)
     /\ \A k \in 1..Len(pages) : pages[k] >= 1 /\ pages[k] <= totalPages

\* the part of C19 the code keeps: strictly ascending, and no value above
\* totalPages
AscendingAndBelowTotal ==
  rpc = "done" =>
     /\ StrictlyAscending(pages)
     /\ \A k \in 1..Len(pages) : pages[k] <= totalPages

\* C20: parsePageRange returns exactly the pages that are named by its tokens
\* and in bounds, in ascending order: a token 'a-b' names a..min(b, totalPages),
\* a bare token n names n, and the named pages outside 1..totalPages are dropped.
C20_ExactlyNamedInBounds ==
  rpc = "done" =>
     /\ StrictlyAscending(pages)
     /\ {pages[k] : k \in 1..Len(pages)} = {i \in Named : i >= 1 /\ i <= totalPages}

\* the same for the range strings none of whose 'a-b' tokens starts below 1
ExactlyNamedWhenStartsAtLeastOne ==
  (rpc = "done" /\ \A k \in 1..Len(RangeParts) :
      (Includes(RangeParts[k], "-") /\ StartOf(RangeParts[k]).t = "number")
         => StartOf(RangeParts[k]).v >= 1) =>
     /\ StrictlyAscending(pages)
     /\ {pages[k] : k \in 1..Len(pages)} = {i \in Named : i >= 1 /\ i <= totalPages}

\* the two calls the specification gives as examples
ParsePageRangeExamples ==
  rpc = "done" =>
     /\ (range = <<"5", "-", "3", ",", "2">> /\ totalPages = 10) => pages = <<2>>
     /\ (range = <<"1", ",", "3", ",", "5", "-", "7", ",", "1", "0", "0">>
           /\ totalPages = 6) => pages = <<1, 3, 5, 6>>

(***************************************************************************)
(* Properties of the request builders of modify and batch-modify.          *)
(***************************************************************************)
\* the position has n tokens and every token is a number
WellFormed(tokens, n) ==
  Len(tokens) = n /\ \A k \in 1..Len(tokens) : ParseNumber(tokens[k]).t = "number"

\* a position string the command line gives for an edit flag is malformed
MalformedGeometry ==
  \/ Truthy(options.addSignature) /\ ~WellFormed(options.signaturePosition, 4)
  \/ Truthy(options.addText) /\ ~WellFormed(options.textPosition, 2)

\* the edit flags are the source of the edit set
FlagsAreUsed == ~Truthy(options.config) /\ ~Truthy(options.template)

\* C21: a malformed position string is rejected with an error before any
\* document is opened, by batch-modify and by modify, and '400,700,500,750' is
\* accepted as (400, 700, 500, 750).
C21_CoordinateValidation ==
  /\ ParsePosition(<<"400", "700", "500", "750">>) = Box(400, 700, 500, 750)
  /\ (MalformedGeometry /\ FlagsAreUsed) =>
       /\ reads = <<>>
       /\ bpc \notin {"process", "summary"}
       /\ bpc = "exit" /\ Len(files) > 0 => exitCode = 1
       /\ \A i \in 1..Len(files) :
            modifyAction(options, files[i]) = [called |-> FALSE, exitCode |-> 1]

\* what the code does validate: modify rejects a position with a wrong number
\* of tokens before the document is opened
ModifyRejectsWrongTokenCount ==
  ((Truthy(options.addSignature) /\ Len(options.signaturePosition) # 4)
     \/ (~Truthy(options.addSignature) /\ Truthy(options.addText)
           /\ Len(options.textPosition) # 2)) =>
     \A i \in 1..Len(files) :
       modifyAction(options, files[i]) = [called |-> FALSE, exitCode |-> 1]


(***************************************************************************)
(* Properties of PdfParser.                                                *)
(***************************************************************************)
\* validateFile was consulted in this call and judged the file safe
JudgedSafe == Len(validation) = 1 /\ validation[1].isSafe

\* the call is over
Returned == epc = "done"

\* C22: on every extraction path and for every configuration of the parser,
\* the file is read for parsing only after validateFile judged it safe, and
\* a file the validator judges unsafe ends as success = false with the
\* validator's issues as the errors, without having been read for parsing.
C22_ValidatorAlwaysConsulted ==
  /\ bytesRead => JudgedSafe
  /\ (Returned /\ ~validateFile(pdfFile).isSafe) =>
       /\ ~parseResult.success
       /\ parseResult.errors = validateFile(pdfFile).issues
       /\ ~bytesRead

\* The same holds of the parsers whose configuration leaves safetyChecks on,
\* those of the extract command among them.
ValidatorConsultedWhenChecksAreOn ==
  (epc \notin {"new", "ready"} /\ ChecksSafety(config)) =>
    /\ bytesRead => JudgedSafe
    /\ (Returned /\ ~validateFile(pdfFile).isSafe) =>
         /\ ~parseResult.success
         /\ parseResult.errors = validateFile(pdfFile).issues
         /\ ~bytesRead

\* an unsafe file was read for parsing, the validator never having been asked
UnsafeFileParsed ==
  /\ Returned
  /\ ~validateFile(pdfFile).isSafe
  /\ bytesRead
  /\ validation = <<>>

\* the configurations the extract command constructs its parser with
ExtractCommandConfigs ==
  {PdfParserConfig(ExtractCommandConfig(pi)) : pi \in {Undef, "true"}}

\* the pages of the document that the range names, ascending
PagesInRange ==
  SelectSeq(parsePageRange(argument, Len(pdfFile.pageTexts)),
            LAMBDA n : n \in 1..Len(pdfFile.pageTexts))

\* the contents of exactly those pages, ascending, joined as extractPages joins
ContentsOfRange ==
  Join([k \in 1..Len(PagesInRange) |-> pdfFile.pageTexts[PagesInRange[k]]],
       <<"\n", "\n">>)

ExtractPagesReturned ==
  /\ Returned
  /\ op = "extractPages"
  /\ output.kind = "text"

\* C23: for every configuration the extract command can build, extractPages
\* returns the contents of exactly the pages of parsePageRange(range,
\* totalPages), ascending, and nothing of any other page.
C23_ExactlyThePagesInRange ==
  (ExtractPagesReturned /\ config \in ExtractCommandConfigs) =>
    output.value = ContentsOfRange

\* It does when the pages were split (--page-info) and the text of the
\* library has one form feed between two pages, or the document has one page.
ExactlyThePagesInRangeWhenSplitByFormFeed ==
  (/\ ExtractPagesReturned
   /\ IncludesPageInfo(config)
   /\ (pdfFile.separator = "\f" \/ Len(pdfFile.pageTexts) = 1)) =>
    output.value = ContentsOfRange

\* without --page-info a range of one page returned the text of two pages
WholeTextForOnePage ==
  /\ ExtractPagesReturned
  /\ config \in ExtractCommandConfigs
  /\ ~IncludesPageInfo(config)
  /\ Len(PagesInRange) = 1
  /\ Len(pdfFile.pageTexts) = 2
  /\ output.value = PdfText(pdfFile)


(***************************************************************************)
(* Properties of batch-modify: all pages, page indices, pre-flight errors, *)
(* totals.                                                                 *)
(***************************************************************************)
\* the files of this run whose output was written by their own processing
Saved ==
  {i \in Called : /\ outDir[files[i].basename].exists
                  /\ outDir[files[i].basename].from = files[i].path}

\* how many edits of a kind the output of file i has drawn on page pg
DrawnOn(i, kind, pg) ==
  Cardinality({j \in 1..Len(outDir[files[i].basename].ops) :
                 /\ outDir[files[i].basename].ops[j].kind = kind
                 /\ outDir[files[i].basename].ops[j].page = pg})

\* every page of the output of file i has as many edits of the kind as page 0
OnEveryPage(i, kind) ==
  \A pg \in 0..(files[i].doc.pageCount - 1) : DrawnOn(i, kind, pg) = DrawnOn(i, kind, 0)

\* C24: with --all-pages, in every document that was saved each text edit and
\* each signature edit that was drawn is drawn on every page of the document.
C24_AllPagesTextAndSignatures ==
  options.allPages =>
    \A i \in Saved : OnEveryPage(i, "text") /\ OnEveryPage(i, "signature")

\* The text edits are, whenever the edit set has any.
AllPagesTextOnEveryPage ==
  options.allPages => \A i \in Saved : OnEveryPage(i, "text")

\* a signature of an all-pages run is on page 0 of a longer document only
SignatureOnFirstPageOnly ==
  /\ options.allPages
  /\ \E i \in Saved :
       /\ files[i].doc.pageCount = MaxPages
       /\ DrawnOn(i, "signature", 0) = 1
       /\ \A pg \in 1..(MaxPages - 1) : DrawnOn(i, "signature", pg) = 0

\* the page index of an edit is a number (not undefined, not NaN)
ConcretePage(edit) == edit.pageNumber.t = "number"

\* C26: every text edit of a request that reached modifyPdf carries a concrete
\* page index (the batch builds no image edits).
C26_ConcretePageIndex ==
  \A i \in Called :
    \A k \in 1..Len(given[i].textInsertions) : ConcretePage(given[i].textInsertions[k])

\* The copies the all-pages expansion makes do.
ConcretePageIndexAfterExpansion ==
  AllPagesBranch =>
    \A i \in Called :
      \A k \in 1..Len(given[i].textInsertions) :
        ConcretePage(given[i].textInsertions[k])

\* a template's edit reached modifyPdf without a page index
TemplateEditWithoutPage ==
  /\ KnownTemplate
  /\ \E i \in Called :
       \E k \in 1..Len(given[i].textInsertions) :
         given[i].textInsertions[k].pageNumber = UNDEFINED

\* the run was aborted by the config that could not be parsed
AbortedOnConfig == MalformedConfig /\ bpc = "exit" /\ exitCode = 1

\* C27: a run aborted by an unparseable config has created nothing and written
\* nothing, the output directory included.
C27_PreflightLeavesFileSystemUntouched ==
  AbortedOnConfig => (outputDir # "created" /\ NothingWritten)

\* No document is opened and none is written in such a run.
PreflightOpensAndWritesNoDocument ==
  AbortedOnConfig => (reads = <<>> /\ NothingWritten)

\* the output directory was created by a run the config then aborted
DirectoryCreatedBeforeAbort == AbortedOnConfig /\ outputDir = "created"

\* the run has printed its summary
Summarised == bpc = "exit" /\ Processing /\ exitCode = 0

\* the modificationsApplied of the outcomes of a list that are successful
RECURSIVE AppliedBySuccessful(_)
AppliedBySuccessful(list) ==
  IF list = <<>> THEN 0
  ELSE (IF Head(list).status = "success" THEN Head(list).modifications ELSE 0)
       + AppliedBySuccessful(Tail(list))

\* C29: when a batch has printed its summary, under either strategy,
\* succeeded + failed is the number of discovered files and the total is the
\* sum of modificationsApplied over exactly the successful outcomes.
C29_TotalsConsistent ==
  Summarised =>
    /\ summary.successful + summary.failed = Len(files)
    /\ summary.successful =
         Cardinality({i \in 1..Len(results) : results[i].status = "success"})
    /\ summary.totalModifications = AppliedBySuccessful(results)

\* a parallel run of several files, one of which failed, has printed totals that
\* are not zero
C29_Witness ==
  /\ Summarised
  /\ UseParallel
  /\ Len(files) >= 2
  /\ summary.failed >= 1
  /\ summary.successful >= 1
  /\ summary.totalModifications >= 2


(***************************************************************************)
(* Properties of modifyPdf: one text edit, and the returned result.        *)
(***************************************************************************)
\* the request is one text edit with a page index, and nothing else
SingleTextEdit ==
  /\ Len(request.textInsertions) = 1
  /\ TotalEdits(request) = 1
  /\ request.textInsertions[1].pageNumber.t = "number"

\* the call is over for a document that has the page of that edit and that
\* was opened and saved
SingleTextEditApplied ==
  /\ SingleTextEdit
  /\ pc = "done"
  /\ persist = "ok"
  /\ request.textInsertions[1].pageNumber.v < source.pageCount

\* the result of C25: one text insertion, drawn on the page of the edit and on
\* no other page
OneInsertionOnItsPage ==
  /\ result.success
  /\ result.textInsertions = 1
  /\ result.modificationsApplied = 1
  /\ outFile.written
  /\ Len(outFile.ops) = 1
  /\ outFile.ops[1].kind = "text"
  /\ outFile.ops[1].page = request.textInsertions[1].pageNumber.v

CountOf(kind) ==
  CASE kind = "form"      -> result.formsFilled
    [] kind = "signature" -> result.signaturesAdded
    [] kind = "text"      -> result.textInsertions
    [] OTHER              -> result.imageInsertions

\* C28: in every returned result modificationsApplied is the sum of the four
\* counts; a failure has all five counts 0, an empty outputPath and an
\* errorMessage; a success has the requested outputPath and no count above the
\* number of edits of its kind in the request.
C28_OutcomeConsistent ==
  result.returned =>
    /\ result.modificationsApplied =
         result.formsFilled + result.signaturesAdded + result.textInsertions +
         result.imageInsertions
    /\ ~result.success =>
         /\ result.modificationsApplied = 0
         /\ \A kind \in {"form", "signature", "text", "image"} : CountOf(kind) = 0
         /\ result.outputPath = ""
         /\ result.errorMessage # Undef
    /\ result.success =>
         /\ result.outputPath = "out.pdf"
         /\ \A kind \in {"form", "signature", "text", "image"} :
              CountOf(kind) <= Len(EditsOf(request, kind))

\* a success with edits of two kinds applied and one signature skipped
C28_Witness ==
  /\ result.returned /\ result.success
  /\ result.modificationsApplied = 2
  /\ result.signaturesAdded = 1 /\ Len(request.signatures) = 2
  /\ result.textInsertions = 1


(***************************************************************************)
(* Properties of the engine cache of PdfGenerator.                         *)
(***************************************************************************)
\* C30: whatever calls of generatePdf and getEngineInfo run on a generator,
\* overlapping ones included, `which` is run at most once per engine, and all
\* the queries for an engine return one and the same value.
C30_ProbedAtMostOnce ==
  \A e \in Engines : probes[e] <= 1 /\ Cardinality(answers[e]) <= 1

\* A call that runs alone probes no engine twice.
ProbedAtMostOnceByOneCall ==
  Len(calls) = 1 => \A e \in Engines : probes[e] <= 1

\* All the queries for an engine return one value while the machine does not
\* change.
OneAnswerPerEngine == \A e \in Engines : Cardinality(answers[e]) <= 1

\* two calls have both run `which` for the same engine
ProbedTwice ==
  /\ \E e \in Engines : probes[e] = 2
  /\ \A c \in 1..Len(calls) : calls[c].at = "done"

====
